---- MODULE Spec2Model ----
(***************************************************************************)
(* Progression engine and turn orchestration of the tutor.                 *)
(*                                                                         *)
(* Two engines drive a session over the same kind of curriculum:           *)
(*   - the service-based engine (SessionService / TutorCoordinator /       *)
(*     ProgressionService over a TutorContext), and                        *)
(*   - the legacy engine (chat() over an Iterations object).               *)
(* A behaviour picks a curriculum and an engine at session start and then  *)
(* runs learner turns and /goto commands in any order.                     *)
(***************************************************************************)
EXTENDS Integers, Sequences, FiniteSets, TLC

VARIABLES exercise, engine, ctx, agent_state, last, gateway, sessions, loader

vars == <<exercise, engine, ctx, agent_state, last, gateway, sessions, loader>>

----------------------------------------------------------------------------
(* Bounds of the model *)

MaxCheckpoints == 2
MaxSteps == 2
MaxTotal == 6
MaxSessionTurns == 2
MaxNameLen == 3
MaxNumber == 3
MaxOvertime == 1

(* Program constants *)

max_step_iterations == 2
max_checkpoint_iterations == 6
max_interactions_step == 2
max_interactions_checkpoint == 6

----------------------------------------------------------------------------
(* Curriculum: exercise[c] is len(exercise.checkpoints[c-1].steps), and     *)
(* Len(exercise) is len(exercise.checkpoints).  The loader accepts an      *)
(* empty list of checkpoints and an empty list of steps.  The curricula    *)
(* tried are those of one checkpoint, those of two checkpoints, and those  *)
(* of more checkpoints that all have the same number of steps.             *)

Exercise ==
  {e \in UNION {[1..n -> 0..MaxSteps] : n \in 0..MaxCheckpoints} :
     \A c \in 3..Len(e) : e[c] = e[1] /\ e[c] = e[2]}

Understanding_empty ==
  [main_question_answered |-> FALSE, guiding_question_answered |-> FALSE]

Understanding ==
  [main_question_answered : BOOLEAN, guiding_question_answered : BOOLEAN]

----------------------------------------------------------------------------
(* IterationState *)

IterationState ==
  [total_interactions |-> 0, step_interactions |-> 0,
   checkpoint_interactions |-> 0, finished |-> FALSE]

(* Variant: a turn is not counted in the total *)
increment_without_total(it) ==
  [it EXCEPT !.step_interactions = @ + 1,
             !.checkpoint_interactions = @ + 1]

IterationState_increment(it) ==
  [it EXCEPT !.total_interactions = @ + 1,
             !.step_interactions = @ + 1,
             !.checkpoint_interactions = @ + 1]

IterationState_reset_step(it) == [it EXCEPT !.step_interactions = 0]

(* Variant: the checkpoint reset leaves the step counter alone *)
reset_checkpoint_only(it) == [it EXCEPT !.checkpoint_interactions = 0]

IterationState_reset_checkpoint(it) ==
  IterationState_reset_step([it EXCEPT !.checkpoint_interactions = 0])

(* Variant: the step budget allows one turn more *)
has_step_iterations_left_inclusive(it, max_step) ==
  it.step_interactions <= max_step

IterationState_has_step_iterations_left(it, max_step) ==
  it.step_interactions < max_step

(* Variant: the checkpoint budget allows one turn more *)
has_checkpoint_iterations_left_inclusive(it, max_checkpoint) ==
  it.checkpoint_interactions <= max_checkpoint

IterationState_has_checkpoint_iterations_left(it, max_checkpoint) ==
  it.checkpoint_interactions < max_checkpoint

(* ProgressionState *)

ProgressionState_advance_step(p) == [p EXCEPT !.current_step = @ + 1]

ProgressionState_advance_checkpoint(p) ==
  [p EXCEPT !.current_checkpoint = @ + 1, !.current_step = 1]

ProgressionState_jump_to_checkpoint(p, checkpoint_num) ==
  [p EXCEPT !.current_checkpoint = checkpoint_num, !.current_step = 1]

----------------------------------------------------------------------------
(* TutorContext *)

add_to_conversation(c, role) ==
  [c EXCEPT !.conversation_history = Append(@, role)]

(* Variant: the step advance resets the checkpoint counter as well *)
advance_step_resetting_checkpoint(c) ==
  [c EXCEPT !.progression = ProgressionState_advance_step(@),
            !.iterations = IterationState_reset_checkpoint(@)]

TutorContext_advance_step(c) ==
  [c EXCEPT !.progression = ProgressionState_advance_step(@),
            !.iterations = IterationState_reset_step(@)]

(* Variant: the Understanding survives the checkpoint advance *)
advance_checkpoint_keeping_understanding(c) ==
  [c EXCEPT !.progression = ProgressionState_advance_checkpoint(@),
            !.iterations = IterationState_reset_checkpoint(@)]

TutorContext_advance_checkpoint(c) ==
  [c EXCEPT !.progression = ProgressionState_advance_checkpoint(@),
            !.iterations = IterationState_reset_checkpoint(@),
            !.current_understanding = Understanding_empty]

(* Variant: a jump that keeps the budgets and the Understanding *)
jump_to_checkpoint_keeping_budgets(c, checkpoint_num) ==
  [c EXCEPT !.progression = ProgressionState_jump_to_checkpoint(@, checkpoint_num)]

(* Variant: a jump that is counted as an interaction *)
jump_to_checkpoint_counted(c, checkpoint_num) ==
  [c EXCEPT !.progression = ProgressionState_jump_to_checkpoint(@, checkpoint_num),
            !.iterations = IterationState_increment(IterationState_reset_checkpoint(@)),
            !.current_understanding = Understanding_empty]

(* Variant: a jump that reopens a finished session *)
jump_to_checkpoint_reopening(c, checkpoint_num) ==
  [c EXCEPT !.progression = ProgressionState_jump_to_checkpoint(@, checkpoint_num),
            !.iterations = [IterationState_reset_checkpoint(@) EXCEPT !.finished = FALSE],
            !.current_understanding = Understanding_empty]

TutorContext_jump_to_checkpoint(c, checkpoint_num) ==
  [c EXCEPT !.progression = ProgressionState_jump_to_checkpoint(@, checkpoint_num),
            !.iterations = IterationState_reset_checkpoint(@),
            !.current_understanding = Understanding_empty]

is_exercise_complete(c) ==
  \/ c.progression.current_checkpoint > Len(exercise)
  \/ c.iterations.finished

has_next_step(c) ==
  LET checkpoint_idx == c.progression.current_checkpoint - 1
  IN IF 0 <= checkpoint_idx /\ checkpoint_idx < Len(exercise)
       THEN c.progression.current_step <= exercise[checkpoint_idx + 1]
       ELSE FALSE

has_next_checkpoint(c) ==
  c.progression.current_checkpoint < Len(exercise)

(* Texts of the curriculum.  A text is kept by what it is: the main answer *)
(* of a checkpoint, the guiding answer of a step of a checkpoint, or the   *)
(* empty string.                                                           *)
NoText == [kind |-> "none", checkpoint |-> 0, step |-> 0]

EmptyText == [kind |-> "empty", checkpoint |-> 0, step |-> 0]

main_answer_of(checkpoint) ==
  [kind |-> "main_answer", checkpoint |-> checkpoint, step |-> 0]

guiding_answer_of(checkpoint, step) ==
  [kind |-> "guiding_answer", checkpoint |-> checkpoint, step |-> step]

main_question_of(checkpoint) ==
  [kind |-> "main_question", checkpoint |-> checkpoint, step |-> 0]

guiding_question_of(checkpoint, step) ==
  [kind |-> "guiding_question", checkpoint |-> checkpoint, step |-> step]

(* the string "No more questions available" *)
NoMoreQuestions == [kind |-> "no_more_questions", checkpoint |-> 0, step |-> 0]

(* the string "No more checkpoints available" *)
NoMoreCheckpoints == [kind |-> "no_more_checkpoints", checkpoint |-> 0, step |-> 0]

image_solution_of(checkpoint) ==
  [kind |-> "image_solution", checkpoint |-> checkpoint, step |-> 0]

current_main_question(c) ==
  LET checkpoint_idx == c.progression.current_checkpoint - 1
  IN IF 0 <= checkpoint_idx /\ checkpoint_idx < Len(exercise)
       THEN main_question_of(checkpoint_idx + 1)
       ELSE NoMoreCheckpoints

(* None (NoText) when the pointer is on no checkpoint *)
current_solution_image_path(c) ==
  LET checkpoint_idx == c.progression.current_checkpoint - 1
  IN IF 0 <= checkpoint_idx /\ checkpoint_idx < Len(exercise)
       THEN image_solution_of(checkpoint_idx + 1)
       ELSE NoText

current_main_answer(c) ==
  LET checkpoint_idx == c.progression.current_checkpoint - 1
  IN IF 0 <= checkpoint_idx /\ checkpoint_idx < Len(exercise)
       THEN main_answer_of(checkpoint_idx + 1)
       ELSE EmptyText

current_guiding_answer(c) ==
  LET checkpoint_idx == c.progression.current_checkpoint - 1
      step_idx == c.progression.current_step - 1
  IN IF /\ 0 <= checkpoint_idx /\ checkpoint_idx < Len(exercise)
        /\ 0 <= step_idx /\ step_idx < exercise[checkpoint_idx + 1]
       THEN guiding_answer_of(checkpoint_idx + 1, step_idx + 1)
       ELSE EmptyText

----------------------------------------------------------------------------
(* ProgressionService *)

_has_next_step(c) ==
  LET checkpoint_idx == c.progression.current_checkpoint - 1
  IN IF 0 <= checkpoint_idx /\ checkpoint_idx < Len(exercise)
       THEN c.progression.current_step < exercise[checkpoint_idx + 1]
       ELSE FALSE

(* Variant: the last checkpoint counts as having a successor *)
_has_next_checkpoint_inclusive(c) ==
  c.progression.current_checkpoint <= Len(exercise)

(* Variant: the checkpoint before the last already has no successor *)
_has_next_checkpoint_early(c) ==
  c.progression.current_checkpoint + 1 < Len(exercise)

_has_next_checkpoint(c) ==
  c.progression.current_checkpoint < Len(exercise)

(* Variant: the guiding-question exit is tested before the main-question   *)
(* exit                                                                    *)
determine_next_action_step_first(understanding, c) ==
  IF understanding.guiding_question_answered /\ _has_next_step(c)
    THEN "advance_step"
  ELSE IF \/ understanding.main_question_answered
          \/ ~IterationState_has_checkpoint_iterations_left(c.iterations, max_checkpoint_iterations)
    THEN IF _has_next_checkpoint(c) THEN "advance_checkpoint" ELSE "finish"
  ELSE IF ~IterationState_has_step_iterations_left(c.iterations, max_step_iterations)
          /\ _has_next_step(c)
    THEN "advance_step"
  ELSE "continue_question"

(* Variant: an exhausted checkpoint budget alone does not leave the        *)
(* checkpoint                                                              *)
determine_next_action_no_budget_exit(understanding, c) ==
  IF understanding.main_question_answered
    THEN IF _has_next_checkpoint(c) THEN "advance_checkpoint" ELSE "finish"
  ELSE IF \/ understanding.guiding_question_answered
          \/ ~IterationState_has_step_iterations_left(c.iterations, max_step_iterations)
    THEN IF _has_next_step(c) THEN "advance_step" ELSE "continue_question"
  ELSE "continue_question"

(* Variant: a checkpoint whose steps ran out is left *)
determine_next_action_leaving_when_steps_run_out(understanding, c) ==
  IF \/ understanding.main_question_answered
     \/ ~IterationState_has_checkpoint_iterations_left(c.iterations, max_checkpoint_iterations)
    THEN IF _has_next_checkpoint(c) THEN "advance_checkpoint" ELSE "finish"
  ELSE IF \/ understanding.guiding_question_answered
          \/ ~IterationState_has_step_iterations_left(c.iterations, max_step_iterations)
    THEN IF _has_next_step(c) THEN "advance_step"
         ELSE IF _has_next_checkpoint(c) THEN "advance_checkpoint" ELSE "finish"
  ELSE "continue_question"

determine_next_action(understanding, c) ==
  IF \/ understanding.main_question_answered
     \/ ~IterationState_has_checkpoint_iterations_left(c.iterations, max_checkpoint_iterations)
    THEN IF _has_next_checkpoint(c) THEN "advance_checkpoint" ELSE "finish"
  ELSE IF \/ understanding.guiding_question_answered
          \/ ~IterationState_has_step_iterations_left(c.iterations, max_step_iterations)
    THEN IF _has_next_step(c) THEN "advance_step" ELSE "continue_question"
  ELSE "continue_question"

(* get_next_step_content: the question that follows the current step *)
get_next_step_content(c) ==
  LET checkpoint_idx == c.progression.current_checkpoint - 1
      next_step_idx == c.progression.current_step
  IN IF 0 <= checkpoint_idx /\ checkpoint_idx < Len(exercise)
       THEN IF next_step_idx < exercise[checkpoint_idx + 1]
              THEN [type |-> "guiding_question",
                    question |-> guiding_question_of(checkpoint_idx + 1, next_step_idx + 1)]
              ELSE [type |-> "main_question",
                    question |-> main_question_of(checkpoint_idx + 1)]
       ELSE [type |-> "end", question |-> NoMoreQuestions]

(* get_next_checkpoint_content returns None iff there is no checkpoint     *)
(* after the current one; first_guiding_question is None (NoText) when the *)
(* next checkpoint has no steps.                                           *)
get_next_checkpoint_content(c) ==
  LET next_checkpoint_idx == c.progression.current_checkpoint
  IN IF next_checkpoint_idx < Len(exercise)
       THEN [none |-> FALSE, checkpoint_number |-> next_checkpoint_idx + 1,
             first_guiding_question |->
               IF next_checkpoint_idx + 1 >= 1 /\ exercise[next_checkpoint_idx + 1] > 0
                 THEN guiding_question_of(next_checkpoint_idx + 1, 1) ELSE NoText]
       ELSE [none |-> TRUE, checkpoint_number |-> 0, first_guiding_question |-> NoText]

(* Variant: every solution message congratulates on the main question *)
format_solution_message_always_praising(understanding, c) ==
  [praise |-> "main",
   answer |-> IF understanding.guiding_question_answered
                   /\ ~understanding.main_question_answered
                THEN current_guiding_answer(c)
                ELSE current_main_answer(c)]

(* format_solution_message: the congratulation the message opens with      *)
(* ("main" for "Du hast die **zentrale Frage** richtig beantwortet!",      *)
(* "guiding" for "Du hast die Frage richtig beantwortet!", "none" for      *)
(* neither) and the sample answer it contains                              *)
format_solution_message(understanding, c) ==
  [praise |-> IF understanding.main_question_answered THEN "main"
              ELSE IF understanding.guiding_question_answered THEN "guiding"
              ELSE "none",
   answer |-> IF understanding.guiding_question_answered
                   /\ ~understanding.main_question_answered
                THEN current_guiding_answer(c)
                ELSE current_main_answer(c)]

----------------------------------------------------------------------------
(* TutorCoordinator *)

(* An agent run either returns a value or raises; the coordinator turns a  *)
(* raised exception into the empty value of the schema.  Texts are kept    *)
(* by their origin: "generated" by the agent or the "empty" default.       *)
AgentRun == {"ok", "fail"}

(* what the understanding agent returns: any Understanding when the run    *)
(* succeeds, nothing that is used when it raises                           *)
AgentData(run) == IF run = "ok" THEN Understanding ELSE {Understanding_empty}

_evaluate_understanding(run, data) ==
  IF run = "ok" THEN data ELSE Understanding_empty

_generate_feedback(run) == IF run = "ok" THEN "generated" ELSE "empty"

_generate_instructions(run) == IF run = "ok" THEN "generated" ELSE "empty"

(* TutorResponse: the fields of the response that depend on the state; a   *)
(* completion_message of TRUE stands for exercise.end_message, FALSE for   *)
(* None, and an instruction_text of "none" for None.  answer_shown is the  *)
(* sample answer that feedback_text contains, NoText when it contains      *)
(* none, praise the congratulation it contains, and next_question the      *)
(* question announced, NoText for None.                                    *)
TutorResponse(feedback_text, instruction_text, action, c, completion_message) ==
  [feedback_text |-> feedback_text,
   instruction_text |-> instruction_text,
   action |-> action,
   next_checkpoint |-> c.progression.current_checkpoint,
   next_step |-> c.progression.current_step,
   completion_message |-> completion_message,
   answer_shown |-> NoText,
   solution_text |-> NoText,
   praise |-> "none",
   next_question |-> NoText]

(* Variant: instructions are generated for a step advance as well *)
_create_response_always_instructs(feedback, understanding, action, c, irun) ==
  CASE action = "continue_question" ->
         LET instructions == _generate_instructions(irun)
         IN [ctx |-> c, runs |-> <<"instructions">>,
             response |-> TutorResponse(feedback, instructions, action, c, FALSE)]
    [] action = "advance_step" ->
         LET solution_text == format_solution_message(understanding, c)
             next_step_content == get_next_step_content(c)
             c1 == TutorContext_advance_step(c)
         IN [ctx |-> c1, runs |-> <<"instructions">>,
             response |-> [TutorResponse(feedback, _generate_instructions(irun), action, c1, FALSE)
                             EXCEPT !.answer_shown = solution_text.answer,
                                    !.praise = solution_text.praise,
                                    !.solution_text = current_guiding_answer(c1),
                                    !.next_question = next_step_content.question]]
    [] action = "advance_checkpoint" ->
         LET solution_text == format_solution_message(understanding, c)
         IN IF ~get_next_checkpoint_content(c).none
              THEN LET c1 == TutorContext_advance_checkpoint(c)
                   IN [ctx |-> c1, runs |-> <<>>,
                       response |-> [TutorResponse(feedback, "none", action, c1, FALSE)
                                       EXCEPT !.answer_shown = solution_text.answer,
                                              !.praise = solution_text.praise,
                                              !.solution_text = current_main_answer(c1),
                                              !.next_question =
                                                get_next_checkpoint_content(c).first_guiding_question]]
              ELSE LET c1 == [c EXCEPT !.iterations.finished = TRUE]
                   IN [ctx |-> c1, runs |-> <<>>,
                       response |-> [TutorResponse(feedback, "none", "finish", c1, TRUE)
                                       EXCEPT !.answer_shown = solution_text.answer,
                                              !.praise = solution_text.praise]]
    [] OTHER ->
         LET c1 == [c EXCEPT !.iterations.finished = TRUE]
         IN [ctx |-> c1, runs |-> <<>>,
             response |-> TutorResponse(feedback, "none", "finish", c1, TRUE)]

(* Variant: the finish decision returns no completion message *)
_create_response_finish_without_message(feedback, understanding, action, c, irun) ==
  CASE action = "continue_question" ->
         LET instructions == _generate_instructions(irun)
         IN [ctx |-> c, runs |-> <<"instructions">>,
             response |-> TutorResponse(feedback, instructions, action, c, FALSE)]
    [] action = "advance_step" ->
         LET solution_text == format_solution_message(understanding, c)
             next_step_content == get_next_step_content(c)
             c1 == TutorContext_advance_step(c)
         IN [ctx |-> c1, runs |-> <<>>,
             response |-> [TutorResponse(feedback, "none", action, c1, FALSE)
                             EXCEPT !.answer_shown = solution_text.answer,
                                    !.praise = solution_text.praise,
                                    !.solution_text = current_guiding_answer(c1),
                                    !.next_question = next_step_content.question]]
    [] action = "advance_checkpoint" ->
         LET solution_text == format_solution_message(understanding, c)
         IN IF ~get_next_checkpoint_content(c).none
              THEN LET c1 == TutorContext_advance_checkpoint(c)
                   IN [ctx |-> c1, runs |-> <<>>,
                       response |-> [TutorResponse(feedback, "none", action, c1, FALSE)
                                       EXCEPT !.answer_shown = solution_text.answer,
                                              !.praise = solution_text.praise,
                                              !.solution_text = current_main_answer(c1),
                                              !.next_question =
                                                get_next_checkpoint_content(c).first_guiding_question]]
              ELSE LET c1 == [c EXCEPT !.iterations.finished = TRUE]
                   IN [ctx |-> c1, runs |-> <<>>,
                       response |-> [TutorResponse(feedback, "none", "finish", c1, TRUE)
                                       EXCEPT !.answer_shown = solution_text.answer,
                                              !.praise = solution_text.praise]]
    [] OTHER ->
         LET c1 == [c EXCEPT !.iterations.finished = TRUE]
         IN [ctx |-> c1, runs |-> <<>>,
             response |-> TutorResponse(feedback, "none", "finish", c1, FALSE)]

(* Variant: the response of an advance reports the pointer it started from *)
_create_response_reporting_old_pointer(feedback, understanding, action, c, irun) ==
  CASE action = "continue_question" ->
         LET instructions == _generate_instructions(irun)
         IN [ctx |-> c, runs |-> <<"instructions">>,
             response |-> TutorResponse(feedback, instructions, action, c, FALSE)]
    [] action = "advance_step" ->
         LET solution_text == format_solution_message(understanding, c)
             next_step_content == get_next_step_content(c)
             c1 == TutorContext_advance_step(c)
         IN [ctx |-> c1, runs |-> <<>>,
             response |-> [TutorResponse(feedback, "none", action, c, FALSE)
                             EXCEPT !.answer_shown = solution_text.answer,
                                    !.praise = solution_text.praise,
                                    !.solution_text = current_guiding_answer(c1),
                                    !.next_question = next_step_content.question]]
    [] action = "advance_checkpoint" ->
         LET solution_text == format_solution_message(understanding, c)
         IN IF ~get_next_checkpoint_content(c).none
              THEN LET c1 == TutorContext_advance_checkpoint(c)
                   IN [ctx |-> c1, runs |-> <<>>,
                       response |-> [TutorResponse(feedback, "none", action, c, FALSE)
                                       EXCEPT !.answer_shown = solution_text.answer,
                                              !.praise = solution_text.praise,
                                              !.solution_text = current_main_answer(c1),
                                              !.next_question =
                                                get_next_checkpoint_content(c).first_guiding_question]]
              ELSE LET c1 == [c EXCEPT !.iterations.finished = TRUE]
                   IN [ctx |-> c1, runs |-> <<>>,
                       response |-> [TutorResponse(feedback, "none", "finish", c1, TRUE)
                                       EXCEPT !.answer_shown = solution_text.answer,
                                              !.praise = solution_text.praise]]
    [] OTHER ->
         LET c1 == [c EXCEPT !.iterations.finished = TRUE]
         IN [ctx |-> c1, runs |-> <<>>,
             response |-> TutorResponse(feedback, "none", "finish", c1, TRUE)]

(* _create_response: the new context, the response, and the agent runs it  *)
(* made                                                                    *)
_create_response(feedback, understanding, action, c, irun) ==
  CASE action = "continue_question" ->
         LET instructions == _generate_instructions(irun)
         IN [ctx |-> c, runs |-> <<"instructions">>,
             response |-> TutorResponse(feedback, instructions, action, c, FALSE)]
    [] action = "advance_step" ->
         LET solution_text == format_solution_message(understanding, c)
             next_step_content == get_next_step_content(c)
             c1 == TutorContext_advance_step(c)
         IN [ctx |-> c1, runs |-> <<>>,
             response |-> [TutorResponse(feedback, "none", action, c1, FALSE)
                             EXCEPT !.answer_shown = solution_text.answer,
                                    !.praise = solution_text.praise,
                                    !.solution_text = current_guiding_answer(c1),
                                    !.next_question = next_step_content.question]]
    [] action = "advance_checkpoint" ->
         LET solution_text == format_solution_message(understanding, c)
         IN IF ~get_next_checkpoint_content(c).none
              THEN LET c1 == TutorContext_advance_checkpoint(c)
                   IN [ctx |-> c1, runs |-> <<>>,
                       response |-> [TutorResponse(feedback, "none", action, c1, FALSE)
                                       EXCEPT !.answer_shown = solution_text.answer,
                                              !.praise = solution_text.praise,
                                              !.solution_text = current_main_answer(c1),
                                              !.next_question =
                                                get_next_checkpoint_content(c).first_guiding_question]]
              ELSE LET c1 == [c EXCEPT !.iterations.finished = TRUE]
                   IN [ctx |-> c1, runs |-> <<>>,
                       response |-> [TutorResponse(feedback, "none", "finish", c1, TRUE)
                                       EXCEPT !.answer_shown = solution_text.answer,
                                              !.praise = solution_text.praise]]
    [] OTHER ->
         LET c1 == [c EXCEPT !.iterations.finished = TRUE]
         IN [ctx |-> c1, runs |-> <<>>,
             response |-> TutorResponse(feedback, "none", "finish", c1, TRUE)]

(* process_student_input, as a function of the agents' outcomes; counted   *)
(* is the IterationState the decision is taken on                          *)
process_student_input(c, urun, udata, frun, irun) ==
  LET c1 == add_to_conversation(c, "user")
      c2 == [c1 EXCEPT !.iterations = IterationState_increment(@)]
      understanding == _evaluate_understanding(urun, udata)
      c3 == [c2 EXCEPT !.current_understanding = understanding]
      feedback == _generate_feedback(frun)
      progression_action == determine_next_action(understanding, c3)
      r == _create_response(feedback, understanding, progression_action, c3, irun)
  IN [ctx |-> add_to_conversation(r.ctx, "assistant"),
      response |-> r.response,
      understanding |-> understanding,
      decision |-> progression_action,
      counted |-> c2.iterations,
      runs |-> <<"understanding", "feedback">> \o r.runs]

(* The content of the assistant entry process_student_input appends to    *)
(* conversation_history, as the list of the texts it is made of            *)
assistant_entry_content(response) == <<response.feedback_text>>

(* process_chat_message of the bridge: the text shown to the learner, as   *)
(* the list of the texts it is made of                                     *)
response_text(response) ==
  IF response.instruction_text # "none"
    THEN <<response.feedback_text, response.instruction_text>>
    ELSE <<response.feedback_text>>

(* Variant: only the lower bound of the target is checked *)
handle_goto_command_no_upper_bound(c, checkpoint_num) ==
  IF checkpoint_num < 1
    THEN [ctx |-> c, response |-> TutorResponse("error", "none", "continue_question", c, FALSE),
          error |-> TRUE]
    ELSE LET c1 == TutorContext_jump_to_checkpoint(c, checkpoint_num)
         IN [ctx |-> c1, response |-> TutorResponse("jumped", "none", "continue_question", c1, FALSE),
             error |-> FALSE]

(* Variant: only the upper bound of the target is checked *)
handle_goto_command_no_lower_bound(c, checkpoint_num) ==
  IF checkpoint_num > Len(exercise)
    THEN [ctx |-> c, response |-> TutorResponse("error", "none", "continue_question", c, FALSE),
          error |-> TRUE]
    ELSE LET c1 == TutorContext_jump_to_checkpoint(c, checkpoint_num)
         IN [ctx |-> c1, response |-> TutorResponse("jumped", "none", "continue_question", c1, FALSE),
             error |-> FALSE]

handle_goto_command(c, checkpoint_num) ==
  LET max_checkpoints == Len(exercise)
  IN IF checkpoint_num < 1 \/ checkpoint_num > max_checkpoints
       THEN [ctx |-> c, response |-> TutorResponse("error", "none", "continue_question", c, FALSE),
             error |-> TRUE]
       ELSE LET c1 == TutorContext_jump_to_checkpoint(c, checkpoint_num)
            IN [ctx |-> c1, response |-> TutorResponse("jumped", "none", "continue_question", c1, FALSE),
                error |-> FALSE]

----------------------------------------------------------------------------
(* The /goto command line: parts is user_input.split(); parts[1], when     *)
(* present, is a non-empty word of characters.   PyInt is int(parts[1]):   *)
(* an optional sign followed by at least one decimal digit, anything else  *)
(* raises ValueError.                                                      *)

Digits == {"0", "1", "2", "3"}

DigitValue(ch) ==
  CASE ch = "0" -> 0 [] ch = "1" -> 1 [] ch = "2" -> 2 [] ch = "3" -> 3

RECURSIVE DigitsValue(_)
DigitsValue(s) ==
  IF s = <<>> THEN 0
  ELSE DigitsValue(SubSeq(s, 1, Len(s) - 1)) * 10 + DigitValue(s[Len(s)])

AllDigits(s) == s # <<>> /\ \A i \in 1..Len(s) : s[i] \in Digits

PyInt(word) ==
  IF AllDigits(word)
    THEN [ValueError |-> FALSE, value |-> DigitsValue(word)]
  ELSE IF word[1] = "-" /\ AllDigits(Tail(word))
    THEN [ValueError |-> FALSE, value |-> 0 - DigitsValue(Tail(word))]
  ELSE [ValueError |-> TRUE, value |-> 0]

(* The words tried as parts[1]: 0, 1, 2, 3, 10, -1, and a word that is not *)
(* an integer                                                              *)
GotoWords ==
  {<<"0">>, <<"1">>, <<"2">>, <<"3">>, <<"1", "0">>, <<"-", "1">>, <<"x">>}

GotoParts == {<<"/goto">>} \cup {<<"/goto", w>> : w \in GotoWords}

----------------------------------------------------------------------------
(* SessionService *)

create_session ==
  [progression |-> [current_checkpoint |-> 1, current_step |-> 1],
   iterations |-> IterationState,
   current_understanding |-> Understanding_empty,
   conversation_history |-> <<>>]

(* process_message on a message that starts with /goto *)
process_message_goto(c, parts) ==
  IF Len(parts) > 1
    THEN LET n == PyInt(parts[2])
         IN IF n.ValueError
              THEN [ctx |-> c, error |-> TRUE, arg |-> "not_an_integer", checkpoint_num |-> 0,
                    response |-> TutorResponse("usage", "none", "continue_question", c, FALSE)]
              ELSE handle_goto_command(c, n.value) @@
                     [arg |-> "integer", checkpoint_num |-> n.value]
    ELSE [ctx |-> c, error |-> TRUE, arg |-> "missing", checkpoint_num |-> 0,
          response |-> TutorResponse("usage", "none", "continue_question", c, FALSE)]

----------------------------------------------------------------------------
(* Legacy engine: Iterations and chat() of agent.py.                       *)
(*                                                                         *)
(* has_exercise tells whether the curriculum was loaded by ExerciseLoader  *)
(* (a list, indexed with Python's list indexing) or comes from the         *)
(* dictionaries of exercises.py (keys 1..n).  A lookup that raises ends    *)
(* the handler with the mutations made so far.                             *)

DirectImportExercise == <<6, 5>>

Iterations ==
  [total |-> 0, step |-> 0, checkpoint |-> 0,
   current_step |-> 0, current_checkpoint |-> 0, finished |-> FALSE]

n_checkpoints == Len(exercise)

Iterations_increment(it) ==
  [it EXCEPT !.total = @ + 1, !.step = @ + 1, !.checkpoint = @ + 1]

Iterations_has_step_iterations_left(it) == it.step < max_interactions_step

Iterations_has_checkpoint_iterations_left(it) ==
  it.checkpoint < max_interactions_checkpoint

(* n_steps[current_checkpoint] raises KeyError outside 1..n_checkpoints *)
n_steps_KeyError(it) == it.current_checkpoint \notin 1..n_checkpoints

Iterations_has_another_step(it) ==
  it.current_step <= exercise[it.current_checkpoint] /\ ~it.finished

Iterations_has_another_checkpoint(it) ==
  it.current_checkpoint <= n_checkpoints /\ ~it.finished

(* main_question(), main_answer(), image_solution(): the lookup            *)
(* exercise.checkpoints[current_checkpoint-1] (a negative index counts     *)
(* from the end) or main_question[current_checkpoint]                      *)
checkpoint_lookup_raises(st) ==
  LET i == st.iterations.current_checkpoint - 1
  IN IF st.has_exercise
       THEN ~(0 - n_checkpoints <= i /\ i < n_checkpoints)
       ELSE st.iterations.current_checkpoint \notin 1..n_checkpoints

(* main_answer(), for a pointer whose lookup does not raise *)
Iterations_main_answer(st) ==
  LET cc == st.iterations.current_checkpoint
  IN IF st.has_exercise /\ cc - 1 < 0
       THEN main_answer_of(n_checkpoints + cc)
       ELSE main_answer_of(cc)

(* guiding_answer(): every failure of the lookup gives the empty string *)
Iterations_guiding_answer(st) ==
  LET cc == st.iterations.current_checkpoint
      checkpoint_idx == cc - 1
      step_idx == st.iterations.current_step - 1
  IN IF st.has_exercise
       THEN IF checkpoint_idx < 0 \/ checkpoint_idx >= n_checkpoints
              THEN EmptyText
              ELSE LET clamped == IF step_idx >= exercise[cc]
                                    THEN exercise[cc] - 1 ELSE step_idx
                   IN IF clamped < 0 \/ clamped >= exercise[cc]
                        THEN EmptyText
                        ELSE guiding_answer_of(cc, clamped + 1)
       ELSE IF cc \in 1..n_checkpoints /\ step_idx + 1 \in 1..exercise[cc]
              THEN guiding_answer_of(cc, step_idx + 1)
              ELSE EmptyText

(* load_next_step: the new state, and whether it raised *)
load_next_step(st) ==
  LET it1 == [st.iterations EXCEPT !.step = 0, !.current_step = @ + 1]
      st1 == [st EXCEPT !.iterations = it1]
  IN IF n_steps_KeyError(it1)
       THEN [state |-> st1, raised |-> TRUE]
     ELSE IF Iterations_has_another_step(it1)
       THEN [state |-> [st1 EXCEPT !.current_understanding.guiding_question_answered = FALSE],
             raised |-> FALSE]
     ELSE [state |-> st1, raised |-> checkpoint_lookup_raises(st1)]

load_next_checkpoint(st) ==
  LET it1 == [st.iterations EXCEPT !.step = 0, !.checkpoint = 0,
                                   !.current_step = 1, !.current_checkpoint = @ + 1]
      st1 == [st EXCEPT !.iterations = it1,
                        !.current_understanding = Understanding_empty]
  IN IF Iterations_has_another_checkpoint(it1)
       THEN st1
       ELSE [st1 EXCEPT !.iterations.finished = TRUE]

----------------------------------------------------------------------------
(* The gateway of the legacy engine: llm_structured of reasoning.py.       *)
(*                                                                         *)
(* A call is a record: its phase ("idle" before the call, "loop" while the *)
(* candidates are tried, "returned" once a value is returned), the schema  *)
(* asked for, the finished flag it found, the index of the candidate to    *)
(* try next, the attempts made so far (one entry per parse() call, which   *)
(* is also what the warning log receives for a failed one) and the value   *)
(* returned.  An exception of parse() is caught inside the loop.           *)

models == <<"gpt-4o-mini", "gpt-4o", "o3-mini">>

ResponseFormat == {"Understanding", "Feedback", "Instructions"}

Feedback_empty == [feedback |-> "Could not create Feedback."]

Instructions_empty == [instructions |-> "Could not create Instructions."]

empty(response_format) ==
  CASE response_format = "Understanding" -> Understanding_empty
    [] response_format = "Feedback" -> Feedback_empty
    [] response_format = "Instructions" -> Instructions_empty

(* the values a backend's answer can be parsed into *)
Parsed(response_format) ==
  CASE response_format = "Understanding" -> Understanding
    [] response_format = "Feedback" -> {[feedback |-> "generated"]}
    [] response_format = "Instructions" -> {[instructions |-> "generated"]}

(* One parse() call either returns the parsed answer (raises = "none") or  *)
(* raises: an API error, the 5 second timeout, or an answer that does not  *)
(* fit the schema.                                                         *)
Raises == {"exception", "timeout", "malformed"}

NoOutput == [none |-> TRUE]

Reply(response_format) ==
  {[raises |-> "none", parsed |-> p] : p \in Parsed(response_format)}
    \cup {[raises |-> e, parsed |-> NoOutput] : e \in Raises}

NoCall ==
  [phase |-> "idle", engine |-> "none", response_format |-> "none",
   finished |-> FALSE, model |-> 1, attempts |-> <<>>, output |-> NoOutput]

(* Variant: the finished flag is not looked at *)
llm_structured_enter_always(finished, response_format) ==
  [NoCall EXCEPT !.phase = "loop", !.engine = "legacy",
                 !.response_format = response_format, !.finished = finished]

(* the head of llm_structured, up to the loop *)
llm_structured_enter(finished, response_format) ==
  IF finished
    THEN [NoCall EXCEPT !.phase = "returned", !.engine = "legacy",
                        !.response_format = response_format, !.finished = TRUE,
                        !.output = empty(response_format)]
    ELSE [NoCall EXCEPT !.phase = "loop", !.engine = "legacy",
                        !.response_format = response_format]

(* Variant: a parsed answer is kept but the loop goes on to the next model *)
llm_structured_try_no_return(call, reply) ==
  LET attempt == [model |-> models[call.model], raises |-> reply.raises,
                  parsed |-> reply.parsed]
  IN IF reply.raises = "none"
       THEN [call EXCEPT !.attempts = Append(@, attempt), !.model = @ + 1,
                         !.output = reply.parsed]
       ELSE [call EXCEPT !.attempts = Append(@, attempt), !.model = @ + 1]

(* one pass of the loop body, for models[call.model] *)
llm_structured_try(call, reply) ==
  LET attempt == [model |-> models[call.model], raises |-> reply.raises,
                  parsed |-> reply.parsed]
  IN IF reply.raises = "none"
       THEN [call EXCEPT !.attempts = Append(@, attempt), !.phase = "returned",
                         !.output = reply.parsed]
       ELSE [call EXCEPT !.attempts = Append(@, attempt), !.model = @ + 1]

(* Variant: nothing is returned when every model has failed *)
llm_structured_exhausted_none(call) ==
  [call EXCEPT !.phase = "returned", !.output = NoOutput]

(* after the loop: every model has failed *)
llm_structured_exhausted(call) ==
  [call EXCEPT !.phase = "returned", !.output = empty(call.response_format)]

RECURSIVE llm_structured_loop(_, _)
llm_structured_loop(call, replies) ==
  IF call.phase # "loop" THEN call
  ELSE IF call.model > Len(models) THEN llm_structured_exhausted(call)
  ELSE llm_structured_loop(llm_structured_try(call, replies[call.model]), replies)

(* the whole call, replies[k] being what models[k] would answer *)
llm_structured(finished, response_format, replies) ==
  llm_structured_loop(llm_structured_enter(finished, response_format), replies)

(* The replies tried in a session turn: the first model times out and the  *)
(* second answers, or every model fails.                                   *)
SessionReplies ==
  {<<[raises |-> "timeout", parsed |-> NoOutput],
     [raises |-> "none", parsed |-> d],
     [raises |-> "none", parsed |-> d]>> : d \in Understanding}
    \cup {<<[raises |-> "exception", parsed |-> NoOutput],
            [raises |-> "timeout", parsed |-> NoOutput],
            [raises |-> "malformed", parsed |-> NoOutput]>>}

(* The gateway calls of the service engine, as a call record *)
agent_call(response_format, run, data) ==
  [NoCall EXCEPT !.phase = "returned", !.engine = "service",
                 !.response_format = response_format,
                 !.attempts = <<[model |-> "agent",
                                 raises |-> IF run = "ok" THEN "none" ELSE "exception",
                                 parsed |-> NoOutput]>>,
                 !.output =
                   CASE response_format = "Understanding" ->
                          _evaluate_understanding(run, data)
                     [] response_format = "Feedback" ->
                          [feedback |-> _generate_feedback(run)]
                     [] response_format = "Instructions" ->
                          [instructions |-> _generate_instructions(run)]]

----------------------------------------------------------------------------

(* chat() on a message that is not a /goto command; runs lists the         *)
(* generation calls it made, in order                                      *)
chat(st, replies) ==
  LET st1 == [st EXCEPT !.iterations = Iterations_increment(@)]
      it1 == st1.iterations
      understanding ==
        llm_structured(it1.finished, "Understanding", replies).output
      st2 == [st1 EXCEPT !.current_understanding = understanding]
  IN IF checkpoint_lookup_raises(st1)
       THEN [state |-> st1, raised |-> TRUE, has_understanding |-> FALSE,
             understanding |-> Understanding_empty, branch |-> "none", counted |-> it1,
             runs |-> <<>>, answer_shown |-> NoText, praise |-> "none"]
     ELSE IF understanding.main_question_answered
             \/ ~Iterations_has_checkpoint_iterations_left(it1)
       THEN LET st3 == load_next_checkpoint(st2)
            IN [state |-> st3, raised |-> checkpoint_lookup_raises(st3),
                has_understanding |-> TRUE, understanding |-> understanding,
                branch |-> "next_checkpoint", counted |-> it1,
                runs |-> <<"understanding", "feedback">>,
                answer_shown |-> IF ~understanding.guiding_question_answered
                                   THEN Iterations_main_answer(st2) ELSE NoText,
                praise |-> IF understanding.main_question_answered
                             THEN "main" ELSE "none"]
     ELSE IF understanding.guiding_question_answered
             \/ ~Iterations_has_step_iterations_left(it1)
       THEN LET r == IF ~Iterations_has_checkpoint_iterations_left(it1)
                       THEN [state |-> load_next_checkpoint(st2), raised |-> FALSE]
                       ELSE load_next_step(st2)
            IN [state |-> r.state, raised |-> r.raised,
                has_understanding |-> TRUE, understanding |-> understanding,
                branch |-> "next_step", counted |-> it1,
                runs |-> <<"understanding", "feedback">>,
                answer_shown |-> Iterations_guiding_answer(st2),
                praise |-> IF understanding.guiding_question_answered
                             THEN "guiding" ELSE "none"]
     ELSE [state |-> st2, raised |-> FALSE,
           has_understanding |-> TRUE, understanding |-> understanding,
           branch |-> "continue", counted |-> it1,
           runs |-> <<"understanding", "feedback", "instructions">>,
           answer_shown |-> NoText, praise |-> "none"]

(* chat() on a message that starts with /goto *)
chat_goto(st, parts) ==
  IF Len(parts) > 1
    THEN LET n == PyInt(parts[2])
         IN IF n.ValueError
              THEN [state |-> st, error |-> TRUE, arg |-> "not_an_integer", checkpoint_num |-> 0]
            ELSE IF n.value < 1 \/ n.value > n_checkpoints
              THEN [state |-> st, error |-> TRUE, arg |-> "integer", checkpoint_num |-> n.value]
            ELSE [state |-> [st EXCEPT !.iterations.step = 0,
                                       !.iterations.checkpoint = 0,
                                       !.iterations.current_step = 1,
                                       !.iterations.current_checkpoint = n.value - 1,
                                       !.current_understanding = Understanding_empty],
                  error |-> FALSE, arg |-> "integer", checkpoint_num |-> n.value]
    ELSE [state |-> st, error |-> TRUE, arg |-> "missing", checkpoint_num |-> 0]

----------------------------------------------------------------------------
(* ExerciseLoader.load.  A path is the name of its last component, a       *)
(* sequence of words and dots; on_disk tells what the path names (nothing, *)
(* a file, a directory) and content what a file holds: an exercise written *)
(* as YAML or as JSON, a document of another shape, or text that is        *)
(* neither YAML nor JSON.                                                  *)

Words == {"x", "txt", "yaml", "YAML", "Yml", "json"}

Names == UNION {[1..n -> Words \cup {"."}] : n \in 1..MaxNameLen}

OnDisk == {"missing", "file", "directory"}

Content == {"exercise_yaml", "exercise_json", "other_document", "garbage"}

NoLoad ==
  [phase |-> "idle", path |-> <<"x">>, on_disk |-> "missing", content |-> "garbage",
   raises |-> "none", opened |-> FALSE, parser |-> "none",
   data |-> <<>>, accepted |-> FALSE]

(* index of the last dot of the name, 0 when it has none *)
rfind_dot(name) ==
  IF \E i \in 1..Len(name) : name[i] = "."
    THEN CHOOSE i \in 1..Len(name) :
           name[i] = "." /\ \A j \in (i + 1)..Len(name) : name[j] # "."
    ELSE 0

(* Path.suffix: the name from its last dot on, empty when that dot is the  *)
(* first or the last character of the name                                 *)
suffix(name) ==
  LET i == rfind_dot(name)
  IN IF 1 < i /\ i < Len(name) THEN SubSeq(name, i, Len(name)) ELSE <<>>

(* str.lower on a word *)
lower(word) ==
  CASE word = "YAML" -> "yaml"
    [] word = "Yml" -> "yml"
    [] OTHER -> word

(* open() of from_yaml / from_json, then the parser and model_validate *)
from_yaml(on_disk, content) ==
  IF on_disk = "directory"
    THEN [raises |-> "IsADirectoryError", opened |-> FALSE, parser |-> "none"]
  ELSE IF content = "garbage"
    THEN [raises |-> "ValueError", opened |-> TRUE, parser |-> "yaml"]
  ELSE IF content = "other_document"
    THEN [raises |-> "ValidationError", opened |-> TRUE, parser |-> "yaml"]
  ELSE [raises |-> "none", opened |-> TRUE, parser |-> "yaml"]

from_json(on_disk, content) ==
  IF on_disk = "directory"
    THEN [raises |-> "IsADirectoryError", opened |-> FALSE, parser |-> "none"]
  ELSE IF content \in {"garbage", "exercise_yaml"}
    THEN [raises |-> "ValueError", opened |-> TRUE, parser |-> "json"]
  ELSE IF content = "other_document"
    THEN [raises |-> "ValidationError", opened |-> TRUE, parser |-> "json"]
  ELSE [raises |-> "none", opened |-> TRUE, parser |-> "json"]

(* Variant: the existence of the file is checked before its extension *)
ExerciseLoader_load_existence_first(path, on_disk, content) ==
  LET extension == [i \in 1..Len(suffix(path)) |-> lower(suffix(path)[i])]
  IN IF on_disk = "missing"
       THEN [raises |-> "FileNotFoundError", opened |-> FALSE, parser |-> "none"]
     ELSE IF extension \notin {<<".", "yaml">>, <<".", "yml">>, <<".", "json">>}
       THEN [raises |-> "ValueError", opened |-> FALSE, parser |-> "none"]
     ELSE IF extension \in {<<".", "yaml">>, <<".", "yml">>}
       THEN from_yaml(on_disk, content)
     ELSE from_json(on_disk, content)

ExerciseLoader_load(path, on_disk, content) ==
  LET extension == [i \in 1..Len(suffix(path)) |-> lower(suffix(path)[i])]
  IN IF extension \notin {<<".", "yaml">>, <<".", "yml">>, <<".", "json">>}
       THEN [raises |-> "ValueError", opened |-> FALSE, parser |-> "none"]
     ELSE IF on_disk = "missing"
       THEN [raises |-> "FileNotFoundError", opened |-> FALSE, parser |-> "none"]
     ELSE IF extension \in {<<".", "yaml">>, <<".", "yml">>}
       THEN from_yaml(on_disk, content)
     ELSE from_json(on_disk, content)

----------------------------------------------------------------------------
(* Exercise.model_validate.  The data of an exercise, as far as its        *)
(* numbering goes: a list of checkpoints, each with its checkpoint_number  *)
(* and the list of the step_numbers of its steps.                          *)

ListLens == 0..2

StepNumbers == UNION {[1..n -> 0..MaxNumber] : n \in ListLens}

CheckpointData == [checkpoint_number : 0..MaxNumber, steps : StepNumbers]

ExerciseData == UNION {[1..n -> CheckpointData] : n \in ListLens}

(* Step: step_number is an int with ge=1 *)
Step_validate(step_number) == step_number >= 1

(* the validator of Checkpoint.steps *)
check_sequential_steps(steps) ==
  \A i \in 1..(Len(steps) - 1) : steps[i] + 1 = steps[i + 1]

(* Checkpoint: checkpoint_number is an int with ge=1, steps a list of Step *)
Checkpoint_validate(checkpoint) ==
  /\ checkpoint.checkpoint_number >= 1
  /\ \A i \in 1..Len(checkpoint.steps) : Step_validate(checkpoint.steps[i])
  /\ check_sequential_steps(checkpoint.steps)

(* Exercise: checkpoints is a list of Checkpoint *)
Exercise_model_validate(data) ==
  \A c \in 1..Len(data) : Checkpoint_validate(data[c])

----------------------------------------------------------------------------
(* The per-session stores.  The service engine keeps the TutorContext of a *)
(* session in the GradioSessionState of that session; the legacy engine    *)
(* keeps the agent_state dictionary in cl.user_session, which resolves to  *)
(* the session of the running handler.  store[id] is what the store holds  *)
(* for session id.                                                         *)

SessionIds == {1, 2}

(* no store: a single session, held in ctx or agent_state *)
NoSessions == [store |-> <<>>, alone |-> <<>>, pc |-> <<>>, loaded |-> <<>>]

(* Variant: one context object serves every session *)
context_to_gradio_shared(store, id, c) == [j \in DOMAIN store |-> c]

(* gradio_state.tutor_context = context, for the state of session id *)
context_to_gradio(store, id, c) == [store EXCEPT ![id] = c]

(* cl.user_session.set("agent_state", state), in the session id *)
user_session_set(store, id, st) == [store EXCEPT ![id] = st]

(* process_student_input up to its first await: the message is recorded    *)
(* and the counters are incremented                                        *)
process_student_input_begin(c) ==
  LET c1 == add_to_conversation(c, "user")
  IN [c1 EXCEPT !.iterations = IterationState_increment(@)]

(* process_student_input from the return of the understanding agent on;    *)
(* c2 is the context as the handler left it at its first await             *)
process_student_input_resume(c2, urun, udata, frun, irun) ==
  LET understanding == _evaluate_understanding(urun, udata)
      c3 == [c2 EXCEPT !.current_understanding = understanding]
      feedback == _generate_feedback(frun)
      progression_action == determine_next_action(understanding, c3)
      r == _create_response(feedback, understanding, progression_action, c3, irun)
  IN [ctx |-> add_to_conversation(r.ctx, "assistant"),
      response |-> r.response]

----------------------------------------------------------------------------
(* The session: state after construction, and one action per handler.      *)
(* last records the handler that ran last, the state it found and what it  *)
(* returned.                                                               *)

Range(s) == {s[i] : i \in DOMAIN s}

NoResponse == TutorResponse("none", "none", "none", create_session, FALSE)

NoLast ==
  [op |-> "init", pre |-> create_session, legacy_pre |-> Iterations,
   pre_understanding |-> Understanding_empty,
   has_understanding |-> FALSE, understanding |-> Understanding_empty,
   decision |-> "none", action |-> "none", raised |-> FALSE,
   counted |-> IterationState, legacy_counted |-> Iterations,
   runs |-> <<>>, response |-> NoResponse,
   arg |-> "none", checkpoint_num |-> 0, error |-> FALSE,
   result |-> NoText]

Init ==
  /\ engine \in {"service", "legacy"}
  /\ exercise \in Exercise \cup (IF engine = "legacy" THEN {DirectImportExercise} ELSE {})
  /\ ctx = create_session
  /\ agent_state = [iterations |-> Iterations,
                    current_understanding |-> Understanding_empty,
                    has_exercise |-> (exercise \in Exercise),
                    started |-> FALSE]
  /\ last = NoLast
  /\ gateway = NoCall
  /\ sessions = NoSessions
  /\ loader = NoLoad

(* what a learner turn that returned r leaves in last *)
TurnRecord(c, r) ==
  [NoLast EXCEPT !.op = "turn", !.pre = c,
                 !.has_understanding = TRUE,
                 !.understanding = r.understanding,
                 !.decision = r.decision,
                 !.action = r.response.action,
                 !.counted = r.counted,
                 !.runs = r.runs,
                 !.response = r.response]

(* SessionService.process_message on a learner message *)
ProcessMessage ==
  /\ engine = "service"
  /\ ctx.iterations.total_interactions < MaxTotal
  /\ \E urun \in AgentRun, frun \in AgentRun, irun \in AgentRun :
     \E udata \in AgentData(urun) :
       \E r \in {process_student_input(ctx, urun, udata, frun, irun)} :
          /\ "instructions" \notin Range(r.runs) => irun = "ok"
          /\ ctx' = r.ctx
          /\ last' = TurnRecord(ctx, r)
  /\ UNCHANGED <<exercise, engine, agent_state, gateway, sessions, loader>>

(* SessionService.process_message on a /goto command *)
ProcessGoto ==
  /\ engine = "service"
  /\ \E parts \in GotoParts :
       \E r \in {process_message_goto(ctx, parts)} :
          /\ ctx' = r.ctx
          /\ last' = [NoLast EXCEPT !.op = "goto", !.pre = ctx,
                                    !.action = r.response.action,
                                    !.response = r.response,
                                    !.arg = r.arg,
                                    !.checkpoint_num = r.checkpoint_num,
                                    !.error = r.error]
  /\ UNCHANGED <<exercise, engine, agent_state, gateway, sessions, loader>>

(* start() of app.py: starting_message loads the first checkpoint *)
StartingMessage ==
  /\ engine = "legacy"
  /\ ~agent_state.started
  /\ LET st == [load_next_checkpoint(agent_state) EXCEPT !.started = TRUE]
     IN /\ agent_state' = st
        /\ last' = [NoLast EXCEPT !.op = "start",
                                  !.legacy_pre = agent_state.iterations,
                                  !.raised = checkpoint_lookup_raises(st)]
  /\ UNCHANGED <<exercise, engine, ctx, gateway, sessions, loader>>

(* The branch chat() takes, in the vocabulary of the service engine; the   *)
(* first branch covers both advance_checkpoint and finish                  *)
LegacyAction(r) ==
  CASE r.branch = "next_checkpoint" ->
         IF r.state.iterations.finished THEN "finish" ELSE "advance_checkpoint"
    [] r.branch = "next_step" -> "advance_step"
    [] r.branch = "continue" -> "continue_question"
    [] OTHER -> "none"

(* chat() on a learner message *)
Chat ==
  /\ engine = "legacy"
  /\ agent_state.started
  /\ agent_state.iterations.total < MaxTotal
  /\ \E replies \in SessionReplies :
       \E r \in {chat(agent_state, replies)} :
          /\ agent_state' = r.state
          /\ last' = [NoLast EXCEPT !.op = "turn",
                                    !.legacy_pre = agent_state.iterations,
                                    !.pre_understanding = agent_state.current_understanding,
                                    !.has_understanding = r.has_understanding,
                                    !.understanding = r.understanding,
                                    !.decision = LegacyAction(r),
                                    !.action = LegacyAction(r),
                                    !.raised = r.raised,
                                    !.legacy_counted = r.counted,
                                    !.runs = r.runs,
                                    !.response = [NoResponse EXCEPT
                                                    !.answer_shown = r.answer_shown,
                                                    !.praise = r.praise]]
  /\ UNCHANGED <<exercise, engine, ctx, gateway, sessions, loader>>

(* chat() on a /goto command *)
ChatGoto ==
  /\ engine = "legacy"
  /\ agent_state.started
  /\ \E parts \in GotoParts :
       \E r \in {chat_goto(agent_state, parts)} :
          /\ agent_state' = r.state
          /\ last' = [NoLast EXCEPT !.op = "goto",
                                    !.legacy_pre = agent_state.iterations,
                                    !.pre_understanding = agent_state.current_understanding,
                                    !.arg = r.arg,
                                    !.checkpoint_num = r.checkpoint_num,
                                    !.error = r.error]
  /\ UNCHANGED <<exercise, engine, ctx, gateway, sessions, loader>>

Next ==
  \/ ProcessMessage
  \/ ProcessGoto
  \/ StartingMessage
  \/ Chat
  \/ ChatGoto

Spec == Init /\ [][Next]_vars

----------------------------------------------------------------------------
(* One gateway call, step by step.  The session is one that has started;   *)
(* its finished flag is either value a session can have when a turn calls  *)
(* the gateway.  In the legacy engine the call is llm_structured, one      *)
(* action per pass of its loop; in the service engine it is one of the     *)
(* three agent wrappers of the coordinator.                                *)

GatewayInit ==
  /\ engine \in {"service", "legacy"}
  /\ exercise = <<1>>
  /\ ctx = create_session
  /\ \E finished \in BOOLEAN :
       agent_state = [iterations |-> [Iterations EXCEPT !.current_checkpoint = 1,
                                                        !.current_step = 1,
                                                        !.finished = finished],
                      current_understanding |-> Understanding_empty,
                      has_exercise |-> TRUE,
                      started |-> TRUE]
  /\ last = NoLast
  /\ gateway = NoCall
  /\ sessions = NoSessions
  /\ loader = NoLoad

(* llm_structured is called *)
LlmStructuredEnter ==
  /\ engine = "legacy"
  /\ gateway.phase = "idle"
  /\ \E response_format \in ResponseFormat :
       gateway' = llm_structured_enter(agent_state.iterations.finished, response_format)
  /\ UNCHANGED <<exercise, engine, ctx, agent_state, last, sessions, loader>>

(* the next model is tried and answers, or fails *)
LlmStructuredTry ==
  /\ gateway.engine = "legacy"
  /\ gateway.phase = "loop"
  /\ gateway.model <= Len(models)
  /\ \E reply \in Reply(gateway.response_format) :
       gateway' = llm_structured_try(gateway, reply)
  /\ UNCHANGED <<exercise, engine, ctx, agent_state, last, sessions, loader>>

(* the loop ends without an answer *)
LlmStructuredExhausted ==
  /\ gateway.engine = "legacy"
  /\ gateway.phase = "loop"
  /\ gateway.model > Len(models)
  /\ gateway' = llm_structured_exhausted(gateway)
  /\ UNCHANGED <<exercise, engine, ctx, agent_state, last, sessions, loader>>

(* _evaluate_understanding, _generate_feedback or _generate_instructions *)
AgentCall ==
  /\ engine = "service"
  /\ gateway.phase = "idle"
  /\ \E response_format \in ResponseFormat, run \in AgentRun :
       \E data \in AgentData(run) :
         gateway' = agent_call(response_format, run, data)
  /\ UNCHANGED <<exercise, engine, ctx, agent_state, last, sessions, loader>>

GatewayNext ==
  \/ LlmStructuredEnter
  \/ LlmStructuredTry
  \/ LlmStructuredExhausted
  \/ AgentCall

GatewaySpec == GatewayInit /\ [][GatewayNext]_vars

----------------------------------------------------------------------------
(* A service session whose backends are down: every agent run of every     *)
(* learner turn raises.  gateway records the agent runs of the last turn,  *)
(* one attempt per run.                                                    *)

DegradedInit == Init /\ engine = "service"

(* SessionService.process_message on a learner message while every agent   *)
(* run raises                                                              *)
DegradedTurn ==
  /\ engine = "service"
  /\ ctx.iterations.total_interactions < MaxTotal
  /\ \E r \in {process_student_input(ctx, "fail", Understanding_empty, "fail", "fail")} :
       /\ ctx' = r.ctx
       /\ last' = TurnRecord(ctx, r)
       /\ gateway' = [NoCall EXCEPT
                        !.phase = "returned", !.engine = "service",
                        !.attempts = [i \in 1..Len(r.runs) |->
                                        [model |-> r.runs[i], raises |-> "exception",
                                         parsed |-> NoOutput]]]
  /\ UNCHANGED <<exercise, engine, agent_state, sessions, loader>>

DegradedNext ==
  \/ DegradedTurn
  \/ ProcessGoto

DegradedSpec == DegradedInit /\ [][DegradedNext]_vars

----------------------------------------------------------------------------
(* A session that never receives a /goto command, followed for as many     *)
(* learner turns as the checkpoint budgets of its curriculum allow and     *)
(* MaxOvertime turns more.  The curricula tried have at least one          *)
(* checkpoint and the same number of steps in every checkpoint.            *)

TurnLimit == Len(exercise) * max_checkpoint_iterations + MaxOvertime

LegacyTurnLimit == Len(exercise) * max_interactions_checkpoint + MaxOvertime

TermInit ==
  /\ Init
  /\ Len(exercise) >= 1
  /\ \A c \in 1..Len(exercise) : exercise[c] = exercise[1]

(* SessionService.process_message on a learner message *)
TermTurn ==
  /\ engine = "service"
  /\ ctx.iterations.total_interactions < TurnLimit
  /\ \E urun \in AgentRun, frun \in AgentRun, irun \in AgentRun :
     \E udata \in AgentData(urun) :
       \E r \in {process_student_input(ctx, urun, udata, frun, irun)} :
          /\ "instructions" \notin Range(r.runs) => irun = "ok"
          /\ ctx' = r.ctx
          /\ last' = TurnRecord(ctx, r)
  /\ UNCHANGED <<exercise, engine, agent_state, gateway, sessions, loader>>

(* chat() on a learner message *)
TermChat ==
  /\ engine = "legacy"
  /\ agent_state.started
  /\ agent_state.iterations.total < LegacyTurnLimit
  /\ \E replies \in SessionReplies :
       \E r \in {chat(agent_state, replies)} :
          /\ agent_state' = r.state
          /\ last' = [NoLast EXCEPT !.op = "turn",
                                    !.legacy_pre = agent_state.iterations,
                                    !.pre_understanding = agent_state.current_understanding,
                                    !.has_understanding = r.has_understanding,
                                    !.understanding = r.understanding,
                                    !.decision = LegacyAction(r),
                                    !.action = LegacyAction(r),
                                    !.raised = r.raised,
                                    !.legacy_counted = r.counted,
                                    !.runs = r.runs,
                                    !.response = [NoResponse EXCEPT
                                                    !.answer_shown = r.answer_shown,
                                                    !.praise = r.praise]]
  /\ UNCHANGED <<exercise, engine, ctx, gateway, sessions, loader>>

TermNext ==
  \/ TermTurn
  \/ StartingMessage
  \/ TermChat

TermSpec == TermInit /\ [][TermNext]_vars

----------------------------------------------------------------------------
(* Two sessions over the same curriculum, their handlers interleaved.  A   *)
(* learner turn of the service engine gives way to the other session at    *)
(* its first await; pc[id] is "awaiting" while the turn of session id is   *)
(* suspended there.  alone[id] is the state session id has when the same   *)
(* handlers, with the same inputs, run on it alone and without             *)
(* interruption; loaded is the curriculum as it was loaded.                *)

IsolationInit ==
  /\ engine \in {"service", "legacy"}
  /\ exercise = <<2, 1>>
  /\ ctx = create_session
  /\ agent_state = [iterations |-> Iterations,
                    current_understanding |-> Understanding_empty,
                    has_exercise |-> TRUE,
                    started |-> FALSE]
  /\ last = NoLast
  /\ gateway = NoCall
  /\ LET new == IF engine = "service" THEN create_session ELSE agent_state
     IN sessions = [store |-> [id \in SessionIds |-> new],
                    alone |-> [id \in SessionIds |-> new],
                    pc |-> [id \in SessionIds |-> "idle"],
                    loaded |-> exercise]
  /\ loader = NoLoad

(* process_message of session id starts a learner turn and awaits the      *)
(* understanding agent                                                     *)
SessionTurnBegin ==
  /\ engine = "service"
  /\ \E id \in SessionIds :
       /\ sessions.pc[id] = "idle"
       /\ sessions.store[id].iterations.total_interactions < MaxSessionTurns
       /\ sessions' = [sessions EXCEPT
            !.store = context_to_gradio(@, id, process_student_input_begin(@[id])),
            !.pc[id] = "awaiting"]
       /\ last' = [NoLast EXCEPT !.op = "turn_begin"]
  /\ UNCHANGED <<exercise, engine, ctx, agent_state, gateway, loader>>

(* the agents answer and the turn of session id runs to its end *)
SessionTurnResume ==
  /\ engine = "service"
  /\ \E id \in SessionIds :
       /\ sessions.pc[id] = "awaiting"
       /\ \E urun \in AgentRun, frun \in AgentRun, irun \in AgentRun :
          \E udata \in AgentData(urun) :
            sessions' = [sessions EXCEPT
              !.store = context_to_gradio(@, id,
                          process_student_input_resume(@[id], urun, udata, frun, irun).ctx),
              !.alone[id] = process_student_input(@, urun, udata, frun, irun).ctx,
              !.pc[id] = "idle"]
       /\ last' = [NoLast EXCEPT !.op = "turn"]
  /\ UNCHANGED <<exercise, engine, ctx, agent_state, gateway, loader>>

(* process_message of session id on a /goto command *)
SessionGoto ==
  /\ engine = "service"
  /\ \E id \in SessionIds, parts \in GotoParts :
       /\ sessions.pc[id] = "idle"
       /\ sessions' = [sessions EXCEPT
            !.store = context_to_gradio(@, id, process_message_goto(@[id], parts).ctx),
            !.alone[id] = process_message_goto(@, parts).ctx]
       /\ last' = [NoLast EXCEPT !.op = "goto"]
  /\ UNCHANGED <<exercise, engine, ctx, agent_state, gateway, loader>>

(* start() of app.py in session id *)
SessionStart ==
  /\ engine = "legacy"
  /\ \E id \in SessionIds :
       /\ ~sessions.store[id].started
       /\ sessions' = [sessions EXCEPT
            !.store = user_session_set(@, id,
                        [load_next_checkpoint(@[id]) EXCEPT !.started = TRUE]),
            !.alone[id] = [load_next_checkpoint(@) EXCEPT !.started = TRUE]]
       /\ last' = [NoLast EXCEPT !.op = "start"]
  /\ UNCHANGED <<exercise, engine, ctx, agent_state, gateway, loader>>

(* chat() of session id on a learner message *)
SessionChat ==
  /\ engine = "legacy"
  /\ \E id \in SessionIds, replies \in SessionReplies :
       /\ sessions.store[id].started
       /\ sessions.store[id].iterations.total < MaxSessionTurns
       /\ sessions' = [sessions EXCEPT
            !.store = user_session_set(@, id, chat(@[id], replies).state),
            !.alone[id] = chat(@, replies).state]
       /\ last' = [NoLast EXCEPT !.op = "turn"]
  /\ UNCHANGED <<exercise, engine, ctx, agent_state, gateway, loader>>

(* chat() of session id on a /goto command *)
SessionChatGoto ==
  /\ engine = "legacy"
  /\ \E id \in SessionIds, parts \in GotoParts :
       /\ sessions.store[id].started
       /\ sessions' = [sessions EXCEPT
            !.store = user_session_set(@, id, chat_goto(@[id], parts).state),
            !.alone[id] = chat_goto(@, parts).state]
       /\ last' = [NoLast EXCEPT !.op = "goto"]
  /\ UNCHANGED <<exercise, engine, ctx, agent_state, gateway, loader>>

IsolationNext ==
  \/ SessionTurnBegin
  \/ SessionTurnResume
  \/ SessionGoto
  \/ SessionStart
  \/ SessionChat
  \/ SessionChatGoto

IsolationSpec == IsolationInit /\ [][IsolationNext]_vars

----------------------------------------------------------------------------
(* The checkpoint-level accessors of a TutorContext on their own, read on  *)
(* a context whose pointer is anywhere from 0 to one past the largest      *)
(* curriculum.                                                             *)

AccessorInit ==
  /\ engine = "service"
  /\ exercise \in Exercise
  /\ \E cc \in 0..(MaxCheckpoints + 1), cs \in 1..(MaxSteps + 1) :
       ctx = [create_session EXCEPT !.progression.current_checkpoint = cc,
                                    !.progression.current_step = cs]
  /\ agent_state = [iterations |-> Iterations,
                    current_understanding |-> Understanding_empty,
                    has_exercise |-> TRUE,
                    started |-> FALSE]
  /\ last = NoLast
  /\ gateway = NoCall
  /\ sessions = NoSessions
  /\ loader = NoLoad

ReadMainQuestion ==
  /\ last' = [NoLast EXCEPT !.op = "current_main_question", !.pre = ctx,
                            !.result = current_main_question(ctx)]
  /\ UNCHANGED <<exercise, engine, ctx, agent_state, gateway, sessions, loader>>

ReadMainAnswer ==
  /\ last' = [NoLast EXCEPT !.op = "current_main_answer", !.pre = ctx,
                            !.result = current_main_answer(ctx)]
  /\ UNCHANGED <<exercise, engine, ctx, agent_state, gateway, sessions, loader>>

ReadSolutionImagePath ==
  /\ last' = [NoLast EXCEPT !.op = "current_solution_image_path", !.pre = ctx,
                            !.result = current_solution_image_path(ctx)]
  /\ UNCHANGED <<exercise, engine, ctx, agent_state, gateway, sessions, loader>>

AccessorNext ==
  \/ ReadMainQuestion
  \/ ReadMainAnswer
  \/ ReadSolutionImagePath

AccessorSpec == AccessorInit /\ [][AccessorNext]_vars

----------------------------------------------------------------------------
(* ExerciseLoader.load on its own, on any path and any state of the disk   *)

LoaderInit ==
  /\ engine = "service"
  /\ exercise = <<1>>
  /\ ctx = create_session
  /\ agent_state = [iterations |-> Iterations,
                    current_understanding |-> Understanding_empty,
                    has_exercise |-> TRUE,
                    started |-> FALSE]
  /\ last = NoLast
  /\ gateway = NoCall
  /\ sessions = NoSessions
  /\ \E path \in Names, on_disk \in OnDisk, content \in Content :
       loader = [NoLoad EXCEPT !.path = path, !.on_disk = on_disk,
                               !.content = IF on_disk = "file" THEN content ELSE "garbage"]

Load ==
  /\ loader.phase = "idle"
  /\ loader' = [phase |-> "loaded", path |-> loader.path,
                 on_disk |-> loader.on_disk, content |-> loader.content,
                 data |-> loader.data, accepted |-> loader.accepted]
                @@ ExerciseLoader_load(loader.path, loader.on_disk, loader.content)
  /\ UNCHANGED <<exercise, engine, ctx, agent_state, last, gateway, sessions>>

LoaderNext == Load

LoaderSpec == LoaderInit /\ [][LoaderNext]_vars

----------------------------------------------------------------------------
(* Exercise.model_validate on its own, on any numbering *)

ValidateInit ==
  /\ engine = "service"
  /\ exercise = <<1>>
  /\ ctx = create_session
  /\ agent_state = [iterations |-> Iterations,
                    current_understanding |-> Understanding_empty,
                    has_exercise |-> TRUE,
                    started |-> FALSE]
  /\ last = NoLast
  /\ gateway = NoCall
  /\ sessions = NoSessions
  /\ \E data \in ExerciseData : loader = [NoLoad EXCEPT !.data = data]

ModelValidate ==
  /\ loader.phase = "idle"
  /\ loader' = [loader EXCEPT !.phase = "validated",
                              !.accepted = Exercise_model_validate(loader.data)]
  /\ UNCHANGED <<exercise, engine, ctx, agent_state, last, gateway, sessions>>

ValidateNext == ModelValidate

ValidateSpec == ValidateInit /\ [][ValidateNext]_vars

----------------------------------------------------------------------------
(* The counters of an IterationState on their own: increment, reset_step   *)
(* and reset_checkpoint applied in any order to a new IterationState.      *)

CounterInit ==
  /\ engine = "service"
  /\ exercise = <<1>>
  /\ ctx = create_session
  /\ agent_state = [iterations |-> Iterations,
                    current_understanding |-> Understanding_empty,
                    has_exercise |-> TRUE,
                    started |-> FALSE]
  /\ last = NoLast
  /\ gateway = NoCall
  /\ sessions = NoSessions
  /\ loader = NoLoad

Increment ==
  /\ ctx.iterations.total_interactions < MaxTotal
  /\ ctx' = [ctx EXCEPT !.iterations = IterationState_increment(@)]
  /\ last' = [NoLast EXCEPT !.op = "increment", !.pre = ctx]
  /\ UNCHANGED <<exercise, engine, agent_state, gateway, sessions, loader>>

ResetStep ==
  /\ ctx' = [ctx EXCEPT !.iterations = IterationState_reset_step(@)]
  /\ last' = [NoLast EXCEPT !.op = "reset_step", !.pre = ctx]
  /\ UNCHANGED <<exercise, engine, agent_state, gateway, sessions, loader>>

ResetCheckpoint ==
  /\ ctx' = [ctx EXCEPT !.iterations = IterationState_reset_checkpoint(@)]
  /\ last' = [NoLast EXCEPT !.op = "reset_checkpoint", !.pre = ctx]
  /\ UNCHANGED <<exercise, engine, agent_state, gateway, sessions, loader>>

CounterNext ==
  \/ Increment
  \/ ResetStep
  \/ ResetCheckpoint

CounterSpec == CounterInit /\ [][CounterNext]_vars

----------------------------------------------------------------------------
(* Properties *)

N == Len(exercise)

ServiceTurn == engine = "service" /\ last.op = "turn"

LegacyTurn == engine = "legacy" /\ last.op = "turn" /\ last.has_understanding

BothAnswered ==
  /\ last.understanding.main_question_answered
  /\ last.understanding.guiding_question_answered

NoneAnswered ==
  /\ ~last.understanding.main_question_answered
  /\ ~last.understanding.guiding_question_answered

(* number of steps of the checkpoint the last handler started on *)
PreSteps ==
  IF last.pre.progression.current_checkpoint \in 1..N
    THEN exercise[last.pre.progression.current_checkpoint] ELSE 0

(* C1: whenever the turn's Understanding has the main and the guiding      *)
(* question answered, the decision of determine_next_action, and the       *)
(* branch chat() takes, is advance_checkpoint or finish, never             *)
(* advance_step and never continue_question.                               *)
C1_DecisionPrecedence ==
  ((ServiceTurn \/ LegacyTurn) /\ BothAnswered)
    => last.decision \in {"advance_checkpoint", "finish"}

(* a turn with both flags set on a step that has a successor, where the    *)
(* guiding-question exit alone would have advanced the step                *)
C1_Witness ==
  /\ ServiceTurn /\ BothAnswered
  /\ last.pre.progression.current_step < PreSteps
  /\ last.decision = "advance_checkpoint"

(* C2: in a turn where the incremented checkpoint counter equals the       *)
(* maximum per checkpoint and neither question is answered, the decision   *)
(* is advance_checkpoint when a further checkpoint exists and finish when  *)
(* it does not, whatever the step counter and the step pointer are.        *)
C2_BudgetExhaustionExits ==
  /\ (/\ ServiceTurn /\ NoneAnswered
      /\ last.counted.checkpoint_interactions = max_checkpoint_iterations)
       => last.decision = IF last.pre.progression.current_checkpoint < N
                            THEN "advance_checkpoint" ELSE "finish"
  /\ (/\ LegacyTurn /\ NoneAnswered
      /\ last.legacy_counted.checkpoint = max_interactions_checkpoint)
       => /\ last.decision \in {"advance_checkpoint", "finish"}
          /\ ~last.legacy_pre.finished =>
               last.decision = IF last.legacy_pre.current_checkpoint < N
                                 THEN "advance_checkpoint" ELSE "finish"

C2_Witness ==
  /\ ServiceTurn /\ NoneAnswered
  /\ last.counted.checkpoint_interactions = max_checkpoint_iterations
  /\ last.counted.step_interactions > max_step_iterations
  /\ last.decision = "advance_checkpoint"
  /\ ctx.progression.current_checkpoint = last.pre.progression.current_checkpoint + 1

(* C3: in the service-based engine, when the pointer is on the last step   *)
(* of a checkpoint, the main question is unanswered, checkpoint budget     *)
(* remains, and the guiding question is answered or the step budget is     *)
(* exhausted, the decision is advance_step and the step pointer becomes    *)
(* len(steps)+1.                                                           *)
C3_LastStepAnswered ==
  (/\ ServiceTurn
   /\ PreSteps >= 1
   /\ last.pre.progression.current_step = PreSteps
   /\ ~last.understanding.main_question_answered
   /\ last.counted.checkpoint_interactions < max_checkpoint_iterations
   /\ \/ last.understanding.guiding_question_answered
      \/ last.counted.step_interactions >= max_step_iterations)
    => /\ last.decision = "advance_step"
       /\ ctx.progression.current_step = PreSteps + 1

(* C4: on a step that is not the last one, with the main and the guiding   *)
(* question unanswered and checkpoint budget remaining, a turn continues   *)
(* the question while the incremented step counter is below the maximum    *)
(* per step and advances the step (step counter 0, step pointer + 1) when  *)
(* it reaches the maximum; the step counter of an unfinished session never *)
(* stays at the maximum on such a step, so the step is left on exactly the *)
(* max-per-step-th turn spent on it.                                       *)
C4_StepBudgetForcesAdvance ==
  /\ (/\ ServiceTurn /\ NoneAnswered
      /\ last.pre.progression.current_step < PreSteps
      /\ last.pre.iterations.step_interactions < max_step_iterations
      /\ last.counted.checkpoint_interactions < max_checkpoint_iterations)
       => /\ last.counted.step_interactions < max_step_iterations =>
               /\ last.decision = "continue_question"
               /\ ctx.iterations.step_interactions = last.counted.step_interactions
               /\ ctx.progression = last.pre.progression
          /\ last.counted.step_interactions = max_step_iterations =>
               /\ last.decision = "advance_step"
               /\ ctx.iterations.step_interactions = 0
               /\ ctx.progression.current_step = last.pre.progression.current_step + 1
               /\ ctx.progression.current_checkpoint = last.pre.progression.current_checkpoint
  /\ (/\ engine = "service" /\ ~ctx.iterations.finished
      /\ ctx.progression.current_checkpoint \in 1..N
      /\ ctx.progression.current_step < exercise[ctx.progression.current_checkpoint])
       => ctx.iterations.step_interactions < max_step_iterations

(* the second turn of the scenario: the step budget alone advances the step *)
C4_Witness ==
  /\ ServiceTurn /\ NoneAnswered
  /\ last.pre.progression.current_step < PreSteps
  /\ last.pre.iterations.step_interactions = max_step_iterations - 1
  /\ last.decision = "advance_step"
  /\ ctx.iterations.step_interactions = 0
  /\ ctx.progression.current_step = last.pre.progression.current_step + 1

(* C5: for every checkpoint pointer in range, _has_next_step and           *)
(* TutorContext.has_next_step are both true iff current-step <= number of  *)
(* steps of the current checkpoint.                                        *)
C5_HasAnotherStep ==
  (engine = "service" /\ ctx.progression.current_checkpoint \in 1..N)
    => LET expected == ctx.progression.current_step
                         <= exercise[ctx.progression.current_checkpoint]
       IN /\ _has_next_step(ctx) = expected
          /\ has_next_step(ctx) = expected

(* C6 as stated: has_next_checkpoint / _has_next_checkpoint is true iff    *)
(* current-checkpoint <= number of checkpoints.                            *)
C6_HasAnotherCheckpoint_Original ==
  engine = "service"
    => /\ has_next_checkpoint(ctx) = (ctx.progression.current_checkpoint <= N)
       /\ _has_next_checkpoint(ctx) = (ctx.progression.current_checkpoint <= N)

(* C6 amended: over a curriculum with at least one checkpoint the          *)
(* reachable checkpoint pointer stays within 1..len(curriculum), and       *)
(* has_next_checkpoint / _has_next_checkpoint is false exactly when the    *)
(* pointer is on the last checkpoint and true on every earlier one.        *)
C6_HasAnotherCheckpoint ==
  (engine = "service" /\ N >= 1)
    => /\ ctx.progression.current_checkpoint \in 1..N
       /\ has_next_checkpoint(ctx) = (ctx.progression.current_checkpoint # N)
       /\ _has_next_checkpoint(ctx) = (ctx.progression.current_checkpoint # N)

(* the pointer has just advanced onto the last checkpoint *)
C6_Witness ==
  /\ ServiceTurn /\ N >= 2
  /\ last.decision = "advance_checkpoint"
  /\ ctx.progression.current_checkpoint = N
  /\ ~_has_next_checkpoint(ctx)

(* C7: in every step of a service-based session, from the state last.pre   *)
(* the handler found to the state it left, finished never goes back to     *)
(* false, and it changes from false to true only in a learner turn that    *)
(* starts with the pointer on the last checkpoint and in which the main    *)
(* question is answered or the checkpoint budget is exhausted.             *)
C7_FinishedOnlyOnLastCheckpoint ==
  (engine = "service" /\ N >= 1 /\ last.op \in {"turn", "goto"}) =>
    /\ last.pre.iterations.finished => ctx.iterations.finished
    /\ (~last.pre.iterations.finished /\ ctx.iterations.finished) =>
         /\ last.op = "turn"
         /\ last.pre.progression.current_checkpoint = N
         /\ ctx.progression = last.pre.progression
         /\ \/ last.understanding.main_question_answered
            \/ last.counted.checkpoint_interactions >= max_checkpoint_iterations

(* a session that finished on the last of two checkpoints                  *)
C7_Witness ==
  /\ ServiceTurn /\ N >= 2
  /\ ~last.pre.iterations.finished /\ ctx.iterations.finished
  /\ last.decision = "finish"
  /\ ctx.progression.current_checkpoint = N

(* C8: in the legacy engine, after load_next_checkpoint is called while    *)
(* the pointer is on the last checkpoint, finished is true and the         *)
(* checkpoint pointer is still <= len(curriculum).                         *)
C8_LegacyFinishStaysInRange ==
  (/\ engine = "legacy" /\ N >= 1
   /\ last.op = "turn"
   /\ last.decision \in {"advance_checkpoint", "finish"}
   /\ last.legacy_pre.current_checkpoint = N)
    => /\ agent_state.iterations.finished
       /\ agent_state.iterations.current_checkpoint <= N

(* C9: a /goto whose argument is missing, not an integer, below 1 or above *)
(* the number of checkpoints returns an error message and leaves the       *)
(* pointer, the counters, the session Understanding and the finished flag  *)
(* as they were.                                                           *)
C9_InvalidGotoMutatesNothing ==
  (/\ last.op = "goto"
   /\ \/ last.arg # "integer"
      \/ last.checkpoint_num < 1
      \/ last.checkpoint_num > N)
    => /\ last.error
       /\ engine = "service" =>
            /\ ctx = last.pre
            /\ last.response.feedback_text \in {"error", "usage"}
       /\ engine = "legacy" =>
            /\ agent_state.iterations = last.legacy_pre
            /\ agent_state.current_understanding = last.pre_understanding

(* a target above the number of checkpoints, on a session whose counters   *)
(* and Understanding are not at their initial values                       *)
C9_Witness ==
  /\ engine = "service" /\ last.op = "goto" /\ N >= 1
  /\ last.arg = "integer" /\ last.checkpoint_num > N
  /\ last.error
  /\ ctx.iterations.checkpoint_interactions > 0
  /\ ctx.current_understanding.guiding_question_answered

(* C10: in the service-based engine a /goto n with 1 <= n <= number of     *)
(* checkpoints leaves the checkpoint pointer at n, the step pointer at 1,  *)
(* the step and checkpoint counters at 0, the session Understanding empty  *)
(* and the total counter unchanged.                                        *)
C10_ValidGoto ==
  (/\ engine = "service" /\ last.op = "goto"
   /\ last.arg = "integer"
   /\ last.checkpoint_num \in 1..N)
    => /\ ~last.error
       /\ ctx.progression.current_checkpoint = last.checkpoint_num
       /\ ctx.progression.current_step = 1
       /\ ctx.iterations.step_interactions = 0
       /\ ctx.iterations.checkpoint_interactions = 0
       /\ ctx.current_understanding = Understanding_empty
       /\ ctx.iterations.total_interactions = last.pre.iterations.total_interactions

(* a jump to another checkpoint from a state with used budgets, an         *)
(* advanced step pointer and an answered guiding question                  *)
C10_Witness ==
  /\ engine = "service" /\ last.op = "goto" /\ ~last.error
  /\ last.pre.progression.current_checkpoint # last.checkpoint_num
  /\ last.pre.progression.current_step > 1
  /\ last.pre.iterations.step_interactions > 0
  /\ last.pre.iterations.checkpoint_interactions > last.pre.iterations.step_interactions
  /\ last.pre.current_understanding.guiding_question_answered
  /\ ctx.progression.current_checkpoint = last.checkpoint_num

----------------------------------------------------------------------------
(* Properties of a gateway call *)

AllFailed(call) ==
  \A i \in 1..Len(call.attempts) : call.attempts[i].raises # "none"

(* C11: a gateway call in which every candidate attempt failed (by an      *)
(* exception, a timeout or an answer that does not fit the schema) returns *)
(* the default value of the schema asked for: an Understanding with both   *)
(* answered-flags false, the default Feedback, the default Instructions;   *)
(* the call ends by returning, in llm_structured and in the three agent    *)
(* wrappers of the coordinator.                                            *)
C11_GatewayDegradesGracefully ==
  /\ gateway.phase \in {"idle", "loop", "returned"}
  /\ (/\ gateway.engine = "legacy" /\ gateway.phase = "returned"
      /\ Len(gateway.attempts) = Len(models) /\ AllFailed(gateway))
       => /\ gateway.output = empty(gateway.response_format)
          /\ gateway.response_format = "Understanding" =>
               /\ ~gateway.output.main_question_answered
               /\ ~gateway.output.guiding_question_answered
          /\ gateway.response_format = "Feedback" =>
               gateway.output = Feedback_empty
          /\ gateway.response_format = "Instructions" =>
               gateway.output = Instructions_empty
  /\ (/\ gateway.engine = "legacy" /\ gateway.phase = "loop"
      /\ Len(gateway.attempts) = Len(models))
       => ENABLED LlmStructuredExhausted
  /\ (/\ gateway.engine = "service" /\ gateway.phase = "returned"
      /\ AllFailed(gateway))
       => gateway.output =
            CASE gateway.response_format = "Understanding" -> Understanding_empty
              [] gateway.response_format = "Feedback" -> [feedback |-> "empty"]
              [] gateway.response_format = "Instructions" -> [instructions |-> "empty"]

(* an Understanding call whose three models failed in the three ways *)
C11_Witness ==
  /\ gateway.engine = "legacy" /\ gateway.phase = "returned"
  /\ gateway.response_format = "Understanding"
  /\ Len(gateway.attempts) = 3
  /\ {gateway.attempts[i].raises : i \in 1..3} = Raises
  /\ gateway.output = Understanding_empty

(* C12: in llm_structured the attempts made are the first models of the    *)
(* list, in the order of the list and once each; every attempt before the  *)
(* last one made has failed; a call that returned after an attempt that    *)
(* answered returns what that attempt was parsed into; so no model is      *)
(* tried after an answer and a call makes at most len(models) attempts.    *)
C12_CandidatesInOrderFirstSuccessWins ==
  gateway.engine = "legacy"
    => /\ Len(gateway.attempts) <= Len(models)
       /\ \A i \in 1..Len(gateway.attempts) :
            /\ gateway.attempts[i].model = models[i]
            /\ i < Len(gateway.attempts) => gateway.attempts[i].raises # "none"
       /\ gateway.phase = "loop" =>
            /\ AllFailed(gateway)
            /\ gateway.model = Len(gateway.attempts) + 1
       /\ (gateway.phase = "returned" /\ ~AllFailed(gateway)) =>
            gateway.output = gateway.attempts[Len(gateway.attempts)].parsed

(* the first model failed, the second answered, the third was not tried *)
C12_Witness ==
  /\ gateway.engine = "legacy" /\ gateway.phase = "returned"
  /\ gateway.response_format = "Understanding"
  /\ Len(gateway.attempts) = 2
  /\ gateway.attempts[1].raises = "timeout"
  /\ gateway.attempts[2].raises = "none"
  /\ gateway.attempts[2].model = "gpt-4o"
  /\ gateway.output.main_question_answered
  /\ gateway.output = gateway.attempts[2].parsed

(* C13: a call of llm_structured made while the session's finished flag is *)
(* true has returned without any attempt, and what it returned is the      *)
(* default value of the schema asked for.                                  *)
C13_FinishedShortCircuits ==
  (/\ gateway.engine = "legacy" /\ gateway.phase # "idle"
   /\ agent_state.iterations.finished)
    => /\ gateway.phase = "returned"
       /\ gateway.attempts = <<>>
       /\ gateway.output = empty(gateway.response_format)

(* a Feedback call of a finished session *)
C13_Witness ==
  /\ gateway.engine = "legacy" /\ gateway.phase = "returned"
  /\ agent_state.iterations.finished
  /\ gateway.response_format = "Feedback"
  /\ gateway.attempts = <<>>
  /\ gateway.output = Feedback_empty

----------------------------------------------------------------------------
(* Properties of the turn pipeline and of the counters *)

(* C14: in the service-based engine a learner turn taken after finished    *)
(* was set runs none of the understanding, feedback and instruction agents *)
(* and works with the default values.                                      *)
C14_NoBackendAfterCompletion ==
  (ServiceTurn /\ last.pre.iterations.finished)
    => /\ last.runs = <<>>
       /\ last.understanding = Understanding_empty
       /\ last.response.feedback_text = "empty"

(* C15: the total counter is 0 at session start, is one above what it was  *)
(* after every learner turn, whatever the decision and whatever the        *)
(* backends did, and is what it was after every other handler; reset_step  *)
(* and reset_checkpoint leave it as it is; so it never decreases.          *)
C15_TotalMonotonic ==
  /\ last.op = "init" =>
       /\ ctx.iterations.total_interactions = 0
       /\ agent_state.iterations.total = 0
  /\ (engine = "service" /\ last.op # "init") =>
       /\ ctx.iterations.total_interactions =
            last.pre.iterations.total_interactions + (IF last.op = "turn" THEN 1 ELSE 0)
       /\ ctx.iterations.total_interactions >= last.pre.iterations.total_interactions
  /\ (engine = "legacy" /\ last.op # "init") =>
       /\ agent_state.iterations.total =
            last.legacy_pre.total + (IF last.op = "turn" THEN 1 ELSE 0)
       /\ agent_state.iterations.total >= last.legacy_pre.total
  /\ IterationState_reset_step(ctx.iterations).total_interactions =
       ctx.iterations.total_interactions
  /\ IterationState_reset_checkpoint(ctx.iterations).total_interactions =
       ctx.iterations.total_interactions

(* the sixth turn of a checkpoint: every agent failed, the checkpoint      *)
(* budget advanced the checkpoint and reset the two other counters         *)
C15_Witness ==
  /\ ServiceTurn /\ NoneAnswered
  /\ last.response.feedback_text = "empty"
  /\ last.decision = "advance_checkpoint"
  /\ ctx.iterations.checkpoint_interactions = 0
  /\ ctx.iterations.step_interactions = 0
  /\ ctx.iterations.total_interactions = last.pre.iterations.total_interactions + 1
  /\ ctx.iterations.total_interactions = max_checkpoint_iterations

(* C16: from any counter values reset_checkpoint() leaves the step counter *)
(* and the checkpoint counter at 0, and applying it again changes nothing; *)
(* reset_step() leaves the step counter at 0 and the checkpoint counter as *)
(* it was; neither touches the total counter or the finished flag.         *)
C16_CheckpointResetImpliesStepReset ==
  /\ last.op = "reset_checkpoint" =>
       /\ ctx.iterations.checkpoint_interactions = 0
       /\ ctx.iterations.step_interactions = 0
       /\ IterationState_reset_checkpoint(ctx.iterations) = ctx.iterations
       /\ ctx.iterations.total_interactions = last.pre.iterations.total_interactions
       /\ ctx.iterations.finished = last.pre.iterations.finished
  /\ last.op = "reset_step" =>
       /\ ctx.iterations.step_interactions = 0
       /\ ctx.iterations.checkpoint_interactions =
            last.pre.iterations.checkpoint_interactions
       /\ ctx.iterations.total_interactions = last.pre.iterations.total_interactions
       /\ ctx.iterations.finished = last.pre.iterations.finished

(* a checkpoint reset of counters that were both above 0 and different *)
C16_Witness ==
  /\ last.op = "reset_checkpoint"
  /\ last.pre.iterations.step_interactions > 0
  /\ last.pre.iterations.checkpoint_interactions > last.pre.iterations.step_interactions
  /\ ctx.iterations.step_interactions = 0
  /\ ctx.iterations.checkpoint_interactions = 0

(* C17: a learner turn that reaches its decision has incremented the       *)
(* counters first, then made the Understanding call, then the Feedback     *)
(* call, has decided on the incremented counters, and has made the         *)
(* Instructions call, as its third and last call, iff the decision is      *)
(* continue_question: three calls when it continues, two when it advances  *)
(* a step, advances a checkpoint or finishes.                              *)
C17_PipelineOrder ==
  /\ (ServiceTurn \/ LegacyTurn) =>
       /\ last.runs = <<"understanding", "feedback">> \o
                        (IF last.decision = "continue_question"
                           THEN <<"instructions">> ELSE <<>>)
       /\ Len(last.runs) = IF last.decision = "continue_question" THEN 3 ELSE 2
  /\ ServiceTurn =>
       /\ last.counted = IterationState_increment(last.pre.iterations)
       /\ last.decision =
            determine_next_action(last.understanding,
                                  [last.pre EXCEPT !.iterations = last.counted])
  /\ LegacyTurn =>
       last.legacy_counted = Iterations_increment(last.legacy_pre)

(* a turn that the incremented step counter, and nothing else, made        *)
(* advance the step: two calls                                             *)
C17_Witness ==
  /\ ServiceTurn /\ NoneAnswered
  /\ last.pre.iterations.step_interactions = max_step_iterations - 1
  /\ last.counted.step_interactions = max_step_iterations
  /\ last.decision = "advance_step"
  /\ last.runs = <<"understanding", "feedback">>

(* C18: after a turn that advanced the checkpoint the session              *)
(* Understanding has both flags false, the step counter and the checkpoint *)
(* counter are 0, the checkpoint pointer is one above what it was and the  *)
(* step pointer is 1, in both engines.                                     *)
C18_CheckpointAdvanceClears ==
  /\ (ServiceTurn /\ last.decision = "advance_checkpoint") =>
       /\ ctx.current_understanding = Understanding_empty
       /\ ctx.iterations.step_interactions = 0
       /\ ctx.iterations.checkpoint_interactions = 0
       /\ ctx.progression.current_checkpoint =
            last.pre.progression.current_checkpoint + 1
       /\ ctx.progression.current_step = 1
  /\ (LegacyTurn /\ last.decision = "advance_checkpoint") =>
       /\ agent_state.current_understanding = Understanding_empty
       /\ agent_state.iterations.step = 0
       /\ agent_state.iterations.checkpoint = 0
       /\ agent_state.iterations.current_checkpoint =
            last.legacy_pre.current_checkpoint + 1
       /\ agent_state.iterations.current_step = 1

(* both questions answered on a later step with used budgets *)
C18_Witness ==
  /\ ServiceTurn /\ BothAnswered
  /\ last.decision = "advance_checkpoint"
  /\ last.pre.progression.current_step > 1
  /\ last.pre.iterations.checkpoint_interactions > 0
  /\ ctx.current_understanding = Understanding_empty
  /\ ctx.progression.current_step = 1

(* C19: in every turn that starts with the pointer on a step of the        *)
(* curriculum and whose decision is advance_step, whether the guiding      *)
(* question was answered or only the step budget ran out, the sample       *)
(* answer in the emitted text is the guiding answer of that step.          *)
C19_AdvanceStepShowsGuidingAnswer ==
  /\ (/\ ServiceTurn /\ last.decision = "advance_step"
      /\ last.pre.progression.current_step \in 1..PreSteps) =>
       last.response.answer_shown =
         guiding_answer_of(last.pre.progression.current_checkpoint,
                           last.pre.progression.current_step)
  /\ (/\ LegacyTurn /\ last.decision = "advance_step"
      /\ last.legacy_pre.current_checkpoint \in 1..N
      /\ last.legacy_pre.current_step
           \in 1..exercise[last.legacy_pre.current_checkpoint]) =>
       last.response.answer_shown =
         guiding_answer_of(last.legacy_pre.current_checkpoint,
                           last.legacy_pre.current_step)

(* C20: after every turn whose decision is advance_step the session        *)
(* Understanding has guiding_question_answered false and its               *)
(* main_question_answered as the turn's Understanding had it.              *)
C20_AdvanceStepClearsGuidingFlag ==
  /\ (ServiceTurn /\ last.decision = "advance_step") =>
       /\ ~ctx.current_understanding.guiding_question_answered
       /\ ctx.current_understanding.main_question_answered =
            last.understanding.main_question_answered
  /\ (LegacyTurn /\ last.decision = "advance_step") =>
       /\ ~agent_state.current_understanding.guiding_question_answered
       /\ agent_state.current_understanding.main_question_answered =
            last.understanding.main_question_answered

----------------------------------------------------------------------------
(* Properties of the transitions and of the emitted text *)

(* C21: every turn whose decision is advance_step leaves the step pointer  *)
(* one above what it was and the step counter at 0, and leaves the         *)
(* checkpoint pointer, the checkpoint counter and the total counter (as    *)
(* the turn counted them) and the finished flag as they were, in both      *)
(* engines.                                                                *)
C21_AdvanceStepFrame ==
  /\ (ServiceTurn /\ last.decision = "advance_step") =>
       /\ ctx.progression.current_step = last.pre.progression.current_step + 1
       /\ ctx.iterations.step_interactions = 0
       /\ ctx.progression.current_checkpoint = last.pre.progression.current_checkpoint
       /\ ctx.iterations.checkpoint_interactions = last.counted.checkpoint_interactions
       /\ ctx.iterations.checkpoint_interactions =
            last.pre.iterations.checkpoint_interactions + 1
       /\ ctx.iterations.total_interactions = last.counted.total_interactions
       /\ ctx.iterations.finished = last.pre.iterations.finished
  /\ (LegacyTurn /\ last.decision = "advance_step") =>
       /\ agent_state.iterations.current_step = last.legacy_pre.current_step + 1
       /\ agent_state.iterations.step = 0
       /\ agent_state.iterations.current_checkpoint = last.legacy_pre.current_checkpoint
       /\ agent_state.iterations.checkpoint = last.legacy_counted.checkpoint
       /\ agent_state.iterations.checkpoint = last.legacy_pre.checkpoint + 1
       /\ agent_state.iterations.total = last.legacy_counted.total
       /\ agent_state.iterations.finished = last.legacy_pre.finished

(* a step advance on the second checkpoint by the step budget: the step    *)
(* counter is reset, the checkpoint counter and the total are kept         *)
C21_Witness ==
  /\ ServiceTurn /\ last.decision = "advance_step"
  /\ last.pre.progression.current_checkpoint = 2
  /\ ctx.iterations.step_interactions = 0
  /\ ctx.iterations.checkpoint_interactions = max_step_iterations
  /\ ctx.iterations.total_interactions > ctx.iterations.checkpoint_interactions
  /\ ctx.progression.current_step = last.pre.progression.current_step + 1

(* C22: every turn of an unfinished session that leaves a checkpoint of    *)
(* the curriculum (its decision is advance_checkpoint or finish), whether  *)
(* the main question was answered or only the checkpoint budget ran out    *)
(* and whatever the guiding flag is, emits a text that contains the main   *)
(* sample answer of the checkpoint it leaves.                              *)
C22_CheckpointExitShowsMainAnswer ==
  /\ (/\ ServiceTurn /\ last.decision \in {"advance_checkpoint", "finish"}
      /\ ~last.pre.iterations.finished
      /\ last.pre.progression.current_checkpoint \in 1..N) =>
       last.response.answer_shown =
         main_answer_of(last.pre.progression.current_checkpoint)
  /\ (/\ LegacyTurn /\ last.decision \in {"advance_checkpoint", "finish"}
      /\ ~last.legacy_pre.finished
      /\ last.legacy_pre.current_checkpoint \in 1..N) =>
       last.response.answer_shown =
         main_answer_of(last.legacy_pre.current_checkpoint)

(* C23: the emitted text of a turn contains the statement that the main    *)
(* question was answered correctly only if the turn's Understanding has    *)
(* main_question_answered; a turn that leaves the checkpoint on the budget *)
(* alone, or advances a step, does not contain it.                         *)
C23_NoFalseCongratulation ==
  (ServiceTurn \/ LegacyTurn) =>
    /\ last.response.praise = "main" => last.understanding.main_question_answered
    /\ last.response.praise = "guiding" =>
         /\ last.understanding.guiding_question_answered
         /\ ~last.understanding.main_question_answered
    /\ NoneAnswered => last.response.praise = "none"

(* the checkpoint budget alone advanced the checkpoint: the solution       *)
(* message is emitted without a congratulation                             *)
C23_Witness ==
  /\ ServiceTurn /\ NoneAnswered
  /\ last.decision = "advance_checkpoint"
  /\ last.counted.checkpoint_interactions = max_checkpoint_iterations
  /\ last.response.answer_shown # NoText
  /\ last.response.praise = "none"

(* C24: in the service-based engine the response of a handler carries the  *)
(* completion message iff its action is finish; a response whose action is *)
(* finish announces no next question, names the pointer the handler found, *)
(* which is not moved, and leaves the finished flag true.                  *)
C24_TerminalTurn ==
  (engine = "service" /\ last.op \in {"turn", "goto"}) =>
    /\ last.response.completion_message <=> last.response.action = "finish"
    /\ last.response.action = "finish" =>
         /\ last.op = "turn" /\ last.decision = "finish"
         /\ last.response.next_question = NoText
         /\ ctx.progression = last.pre.progression
         /\ last.response.next_checkpoint = last.pre.progression.current_checkpoint
         /\ last.response.next_step = last.pre.progression.current_step
         /\ ctx.iterations.finished

(* the turn that finishes a session on the last of two checkpoints, on its *)
(* second step                                                             *)
C24_Witness ==
  /\ ServiceTurn /\ N >= 2
  /\ ~last.pre.iterations.finished
  /\ last.pre.progression.current_checkpoint = N
  /\ last.pre.progression.current_step > 1
  /\ last.response.action = "finish"
  /\ last.response.completion_message
  /\ ctx.iterations.finished

(* C26: in a service-based session over a curriculum with at least one     *)
(* checkpoint, after any sequence of learner turns and /goto commands, a   *)
(* session that is not finished has 1 <= current_checkpoint <=             *)
(* len(curriculum); session creation puts the pointer at 1, a turn moves   *)
(* it by at most one and a /goto only onto its target.                     *)
C26_CheckpointPointerInRange ==
  (engine = "service" /\ N >= 1 /\ ~ctx.iterations.finished) =>
    /\ 1 <= ctx.progression.current_checkpoint
    /\ ctx.progression.current_checkpoint <= N
    /\ last.op = "init" => ctx.progression.current_checkpoint = 1
    /\ last.op = "turn" =>
         ctx.progression.current_checkpoint \in
           {last.pre.progression.current_checkpoint,
            last.pre.progression.current_checkpoint + 1}
    /\ last.op = "goto" =>
         ctx.progression.current_checkpoint \in
           {last.pre.progression.current_checkpoint, last.checkpoint_num}

(* a session that went on to the last checkpoint, jumped back to the first *)
(* one and is not finished                                                 *)
C26_Witness ==
  /\ engine = "service" /\ N >= 2 /\ ~ctx.iterations.finished
  /\ last.op = "goto" /\ ~last.error
  /\ last.pre.progression.current_checkpoint = N
  /\ last.checkpoint_num = 1
  /\ ctx.progression.current_checkpoint = 1
  /\ ctx.iterations.total_interactions > 0

(* C28: a /goto command, whether its target is valid, out of range, not   *)
(* an integer or missing, makes no generation call and increments no       *)
(* interaction counter: the total counter is what it was, and the step     *)
(* and checkpoint counters are what they were or 0.                        *)
C28_GotoOutsidePipeline ==
  last.op = "goto" =>
    /\ last.runs = <<>>
    /\ ~last.has_understanding
    /\ engine = "service" =>
         /\ ctx.iterations.total_interactions = last.pre.iterations.total_interactions
         /\ ctx.iterations.step_interactions
              \in {0, last.pre.iterations.step_interactions}
         /\ ctx.iterations.checkpoint_interactions
              \in {0, last.pre.iterations.checkpoint_interactions}
         /\ last.error => ctx.iterations = last.pre.iterations
         /\ Len(ctx.conversation_history) = Len(last.pre.conversation_history)
    /\ engine = "legacy" =>
         /\ agent_state.iterations.total = last.legacy_pre.total
         /\ agent_state.iterations.step \in {0, last.legacy_pre.step}
         /\ agent_state.iterations.checkpoint \in {0, last.legacy_pre.checkpoint}
         /\ last.error => agent_state.iterations = last.legacy_pre

(* a valid jump taken after turns that used the budgets: the total stays   *)
(* and the two other counters go to 0                                      *)
C28_Witness ==
  /\ engine = "service" /\ last.op = "goto" /\ ~last.error
  /\ last.pre.iterations.step_interactions > 0
  /\ last.pre.iterations.total_interactions > last.pre.iterations.checkpoint_interactions
  /\ ctx.iterations.total_interactions = last.pre.iterations.total_interactions
  /\ ctx.iterations.step_interactions = 0
  /\ last.runs = <<>>

----------------------------------------------------------------------------
(* Properties of a session whose backends are down *)

(* C25: a learner turn in which every agent run raised returns a normal    *)
(* response built from the defaults (the empty Understanding, the default  *)
(* Feedback, the default Instructions when it continues), has incremented  *)
(* the three counters by one each, and takes the transition the decision   *)
(* rule gives for both flags false: leave the checkpoint when the          *)
(* checkpoint budget is used up, else advance the step when the step       *)
(* budget is used up and a further step exists, else continue.             *)
C25_DegradedTurn ==
  (/\ ServiceTurn
   /\ Len(gateway.attempts) = Len(last.runs)
   /\ AllFailed(gateway)) =>
    /\ last.understanding = Understanding_empty
    /\ last.response.feedback_text = "empty"
    /\ last.response.instruction_text =
         IF last.decision = "continue_question" THEN "empty" ELSE "none"
    /\ last.response.praise = "none"
    /\ last.counted.total_interactions = last.pre.iterations.total_interactions + 1
    /\ last.counted.step_interactions = last.pre.iterations.step_interactions + 1
    /\ last.counted.checkpoint_interactions =
         last.pre.iterations.checkpoint_interactions + 1
    /\ ctx.iterations.total_interactions = last.pre.iterations.total_interactions + 1
    /\ last.response.action = last.decision
    /\ last.decision =
         IF last.counted.checkpoint_interactions >= max_checkpoint_iterations
           THEN IF last.pre.progression.current_checkpoint < N
                  THEN "advance_checkpoint" ELSE "finish"
         ELSE IF /\ last.counted.step_interactions >= max_step_iterations
                 /\ last.pre.progression.current_step < PreSteps
           THEN "advance_step"
         ELSE "continue_question"
    /\ last.decision = "continue_question" =>
         /\ ctx.progression = last.pre.progression
         /\ ctx.iterations = last.counted

(* the sixth degraded turn on a checkpoint: two failed runs, the default   *)
(* feedback, and the checkpoint left on the budget                         *)
C25_Witness ==
  /\ ServiceTurn /\ AllFailed(gateway)
  /\ Len(gateway.attempts) = 2
  /\ last.runs = <<"understanding", "feedback">>
  /\ last.response.feedback_text = "empty"
  /\ last.counted.checkpoint_interactions = max_checkpoint_iterations
  /\ last.decision = "advance_checkpoint"
  /\ ctx.progression.current_checkpoint = last.pre.progression.current_checkpoint + 1

----------------------------------------------------------------------------
(* Properties of two interleaved sessions *)

----------------------------------------------------------------------------
(* Properties of the accessors and of the loader *)

(* what an accessor that failed with an out-of-range error would give *)
OutOfRange == [kind |-> "out_of_range", checkpoint |-> 0, step |-> 0]

(* C29: read on a context whose checkpoint pointer is greater than the     *)
(* number of checkpoints, current_main_question, current_main_answer and   *)
(* current_solution_image_path fail with an out-of-range error and return  *)
(* no value.                                                               *)
C29_AccessorsFailPastEnd ==
  (/\ last.op \in {"current_main_question", "current_main_answer",
                   "current_solution_image_path"}
   /\ last.pre.progression.current_checkpoint > N)
    => last.result = OutOfRange

(* the extension of a path as load() sees it, in lower case *)
Extension(path) == [i \in 1..Len(suffix(path)) |-> lower(suffix(path)[i])]

Supported(path) ==
  Extension(path) \in {<<".", "yaml">>, <<".", "yml">>, <<".", "json">>}

(* C30: load() of a path whose extension (compared in lower case) is not   *)
(* .yaml, .yml or .json raises ValueError, whether the path names nothing, *)
(* a file or a directory, and opens nothing; load() of a path with a       *)
(* supported extension that does not exist raises FileNotFoundError and    *)
(* opens nothing; a file is opened, and an exercise returned, only for an  *)
(* existing path with a supported extension, by the YAML parser for .yaml  *)
(* and .yml and by the JSON parser for .json.                              *)
C30_LoadClassifiesFirst ==
  loader.phase = "loaded" =>
    /\ ~Supported(loader.path) =>
         /\ loader.raises = "ValueError"
         /\ ~loader.opened /\ loader.parser = "none"
    /\ (Supported(loader.path) /\ loader.on_disk = "missing") =>
         /\ loader.raises = "FileNotFoundError"
         /\ ~loader.opened /\ loader.parser = "none"
    /\ loader.opened =>
         /\ Supported(loader.path) /\ loader.on_disk = "file"
         /\ loader.parser = IF Extension(loader.path) = <<".", "json">>
                              THEN "json" ELSE "yaml"
    /\ loader.raises = "none" => loader.opened

(* a path with an unsupported extension that does not exist: ValueError,   *)
(* not FileNotFoundError                                                   *)
C30_Witness ==
  /\ loader.phase = "loaded"
  /\ loader.path = <<"x", ".", "txt">>
  /\ loader.on_disk = "missing"
  /\ loader.raises = "ValueError"
  /\ ~loader.opened

(* the numbers are 1, 2, ..., in this order *)
ContiguousFromOne(numbers) == \A i \in 1..Len(numbers) : numbers[i] = i

(* C31: every exercise that model_validate accepts has checkpoint numbers  *)
(* 1, 2, ... in order and, in every checkpoint, a non-empty list of steps  *)
(* numbered 1, 2, ... in order.                                            *)
C31_LoaderValidatesNumbering ==
  (loader.phase = "validated" /\ loader.accepted) =>
    /\ ContiguousFromOne([c \in 1..Len(loader.data) |-> loader.data[c].checkpoint_number])
    /\ \A c \in 1..Len(loader.data) :
         /\ loader.data[c].steps # <<>>
         /\ ContiguousFromOne(loader.data[c].steps)

(* C32: in a turn whose Understanding leaves the main question unanswered  *)
(* and whose checkpoint counter, after the increment, is below the maximum *)
(* per checkpoint, the decision is advance_step or continue_question, and  *)
(* the checkpoint pointer, the checkpoint counter and the finished flag    *)
(* after the turn are the ones the decision found; this in both engines.   *)
C32_StepsRunningOutKeepCheckpoint ==
  /\ (/\ ServiceTurn
      /\ ~last.understanding.main_question_answered
      /\ last.counted.checkpoint_interactions < max_checkpoint_iterations)
       => /\ last.decision \in {"advance_step", "continue_question"}
          /\ last.action = last.decision
          /\ ctx.progression.current_checkpoint = last.pre.progression.current_checkpoint
          /\ ctx.iterations.checkpoint_interactions = last.counted.checkpoint_interactions
          /\ ctx.iterations.finished = last.pre.iterations.finished
  /\ (/\ LegacyTurn
      /\ ~last.understanding.main_question_answered
      /\ last.legacy_counted.checkpoint < max_interactions_checkpoint)
       => /\ last.decision \in {"advance_step", "continue_question"}
          /\ agent_state.iterations.current_checkpoint = last.legacy_pre.current_checkpoint
          /\ agent_state.iterations.checkpoint = last.legacy_counted.checkpoint
          /\ agent_state.iterations.finished = last.legacy_pre.finished

(* the guiding question of the last step of a checkpoint is answered, the  *)
(* main question is not, and the session stays on the checkpoint           *)
C32_Witness ==
  /\ ServiceTurn
  /\ last.understanding.guiding_question_answered
  /\ ~last.understanding.main_question_answered
  /\ last.counted.checkpoint_interactions < max_checkpoint_iterations
  /\ last.pre.progression.current_checkpoint \in 1..(N - 1)
  /\ last.pre.progression.current_step >= PreSteps
  /\ last.decision = "continue_question"
  /\ ctx.progression.current_checkpoint = last.pre.progression.current_checkpoint

(* C33: without /goto commands, whatever the backends return, no           *)
(* checkpoint receives more than the maximum per checkpoint of learner     *)
(* turns, a session on checkpoint k that is not finished has had fewer     *)
(* than k times that many turns, and a session over N >= 1 checkpoints is  *)
(* finished once it has had N times that many turns; in both engines.      *)
C33_BoundedTermination ==
  /\ engine = "service" =>
       /\ ~ctx.iterations.finished =>
            /\ ctx.progression.current_checkpoint \in 1..N
            /\ ctx.iterations.total_interactions
                 < ctx.progression.current_checkpoint * max_checkpoint_iterations
       /\ ctx.iterations.total_interactions >= N * max_checkpoint_iterations
            => ctx.iterations.finished
       /\ (ServiceTurn /\ ~last.pre.iterations.finished) =>
            last.counted.checkpoint_interactions <= max_checkpoint_iterations
  /\ (engine = "legacy" /\ agent_state.started) =>
       /\ ~agent_state.iterations.finished =>
            /\ agent_state.iterations.current_checkpoint \in 1..N
            /\ agent_state.iterations.total
                 < agent_state.iterations.current_checkpoint * max_interactions_checkpoint
       /\ agent_state.iterations.total >= N * max_interactions_checkpoint
            => agent_state.iterations.finished
       /\ (last.op = "turn" /\ ~last.legacy_pre.finished) =>
            last.legacy_counted.checkpoint <= max_interactions_checkpoint

(* the longest session over two checkpoints: each checkpoint is left by    *)
(* its budget, and the turn that finishes the session is turn 2 * max      *)
C33_Witness ==
  /\ ServiceTurn
  /\ N = 2
  /\ last.decision = "finish"
  /\ ~last.understanding.main_question_answered
  /\ ~last.pre.iterations.finished
  /\ ctx.iterations.finished
  /\ ctx.iterations.total_interactions = N * max_checkpoint_iterations

(* C34: a learner turn of the service engine extends conversation_history  *)
(* by exactly two entries, the learner's input and then the response that  *)
(* was emitted, and leaves the earlier entries as they were; a /goto       *)
(* command appends nothing.                                                *)
C34_TranscriptRecordsTurn ==
  /\ ServiceTurn =>
       /\ ctx.conversation_history
            = last.pre.conversation_history \o <<"user", "assistant">>
       /\ assistant_entry_content(last.response) = response_text(last.response)
  /\ (engine = "service" /\ last.op = "goto") =>
       ctx.conversation_history = last.pre.conversation_history

(* the part of C34 on the number and order of the entries *)
TranscriptAppendOnly ==
  /\ ServiceTurn =>
       ctx.conversation_history
         = last.pre.conversation_history \o <<"user", "assistant">>
  /\ (engine = "service" /\ last.op = "goto") =>
       ctx.conversation_history = last.pre.conversation_history

(* C35: in every state of a started legacy session whose checkpoint        *)
(* pointer is on a checkpoint of the curriculum that has steps, the step   *)
(* pointer is at least 0 and at most the number of steps of that           *)
(* checkpoint plus one.                                                    *)
C35_LegacyStepPointerInRange ==
  (/\ engine = "legacy"
   /\ agent_state.started
   /\ agent_state.iterations.current_checkpoint \in 1..N
   /\ exercise[agent_state.iterations.current_checkpoint] >= 1)
    => /\ 0 <= agent_state.iterations.current_step
       /\ agent_state.iterations.current_step
            <= exercise[agent_state.iterations.current_checkpoint] + 1

(* C36: after a /goto n of the legacy chat() with 1 <= n <= number of      *)
(* checkpoints, Iterations.current_checkpoint is n.                        *)
C36_LegacyGotoLandsOnTarget ==
  (/\ engine = "legacy"
   /\ last.op = "goto"
   /\ ~last.error)
    => agent_state.iterations.current_checkpoint = last.checkpoint_num

(* C37: the action of the response of a learner turn of the service engine *)
(* is the transition the turn performed.  continue_question: the pointer   *)
(* and the finished flag are as before the turn and the counters are the   *)
(* incremented ones; advance_step: same checkpoint, step one higher;       *)
(* advance_checkpoint: checkpoint one higher, step 1; finish: the pointer  *)
(* is as before and finished is set.  In every case next_checkpoint and    *)
(* next_step of the response are the pointer the turn ends on.             *)
C37_ActionIsTransition ==
  ServiceTurn =>
    /\ last.response.action \in
         {"continue_question", "advance_step", "advance_checkpoint", "finish"}
    /\ last.response.action = "continue_question" =>
         /\ ctx.progression = last.pre.progression
         /\ ctx.iterations.finished = last.pre.iterations.finished
         /\ ctx.iterations = last.counted
    /\ last.response.action = "advance_step" =>
         /\ ctx.progression.current_checkpoint = last.pre.progression.current_checkpoint
         /\ ctx.progression.current_step = last.pre.progression.current_step + 1
    /\ last.response.action = "advance_checkpoint" =>
         /\ ctx.progression.current_checkpoint
              = last.pre.progression.current_checkpoint + 1
         /\ ctx.progression.current_step = 1
    /\ last.response.action = "finish" =>
         /\ ctx.progression = last.pre.progression
         /\ ctx.iterations.finished
    /\ last.response.next_checkpoint = ctx.progression.current_checkpoint
    /\ last.response.next_step = ctx.progression.current_step

(* a checkpoint advance from the second step of the first checkpoint: the  *)
(* response reports checkpoint 2, step 1                                   *)
C37_Witness ==
  /\ ServiceTurn
  /\ last.response.action = "advance_checkpoint"
  /\ last.pre.progression = [current_checkpoint |-> 1, current_step |-> 2]
  /\ ctx.progression = [current_checkpoint |-> 2, current_step |-> 1]
  /\ last.response.next_checkpoint = 2
  /\ last.response.next_step = 1

(* C38: in the response of a turn of the service engine that advances the  *)
(* step, solution_text is the guiding answer of the step the turn started  *)
(* on; in one that advances the checkpoint, it is the main answer of the   *)
(* checkpoint the turn started on.  It is never the answer of the step or  *)
(* checkpoint the turn moves to.                                           *)
C38_SolutionTextOfQuestionLeft ==
  ServiceTurn =>
    /\ last.response.action = "advance_step" =>
         /\ last.response.solution_text = current_guiding_answer(last.pre)
         /\ last.response.solution_text # current_guiding_answer(ctx)
    /\ last.response.action = "advance_checkpoint" =>
         /\ last.response.solution_text = current_main_answer(last.pre)
         /\ last.response.solution_text # current_main_answer(ctx)

(* C39: in every state of a service-based session the counters satisfy     *)
(* 0 <= step_interactions <= checkpoint_interactions <= total_interactions,*)
(* and while the session is not finished the checkpoint counter is below   *)
(* the maximum per checkpoint; inside a turn it is at most the maximum.    *)
C39_CounterOrderAndBudget ==
  engine = "service" =>
    /\ 0 <= ctx.iterations.step_interactions
    /\ ctx.iterations.step_interactions <= ctx.iterations.checkpoint_interactions
    /\ ctx.iterations.checkpoint_interactions <= ctx.iterations.total_interactions
    /\ ~ctx.iterations.finished =>
         ctx.iterations.checkpoint_interactions < max_checkpoint_iterations
    /\ (last.op = "turn" /\ ~last.pre.iterations.finished) =>
         /\ last.counted.step_interactions <= last.counted.checkpoint_interactions
         /\ last.counted.checkpoint_interactions <= max_checkpoint_iterations

(* a turn in which the checkpoint counter reaches the maximum and which    *)
(* leaves the checkpoint for the next one, unfinished, with the counter    *)
(* back at 0                                                               *)
C39_Witness ==
  /\ ServiceTurn
  /\ ~last.understanding.main_question_answered
  /\ last.counted.checkpoint_interactions = max_checkpoint_iterations
  /\ last.counted.step_interactions < last.counted.checkpoint_interactions
  /\ last.decision = "advance_checkpoint"
  /\ ~ctx.iterations.finished
  /\ ctx.iterations.checkpoint_interactions = 0
  /\ ctx.iterations.total_interactions = max_checkpoint_iterations

(* C40: whatever a service-based session that is finished receives next, a *)
(* learner turn, a /goto to a checkpoint of the curriculum or a /goto that *)
(* is refused, it is finished afterwards and is_exercise_complete() is     *)
(* true, wherever the pointer is.                                          *)
C40_FinishedIsAbsorbing ==
  (/\ engine = "service"
   /\ last.op \in {"turn", "goto"}
   /\ last.pre.iterations.finished)
    => /\ ctx.iterations.finished
       /\ is_exercise_complete(ctx)

(* a finished session over two checkpoints is sent back to checkpoint 1 by *)
(* a /goto and is still complete                                           *)
C40_Witness ==
  /\ engine = "service" /\ N = 2
  /\ last.op = "goto" /\ ~last.error
  /\ last.pre.iterations.finished
  /\ last.pre.progression.current_checkpoint = 2
  /\ last.checkpoint_num = 1
  /\ ctx.progression.current_checkpoint = 1
  /\ ctx.iterations.finished
  /\ is_exercise_complete(ctx)

====
